---- MODULE Spec2Model ----
(***************************************************************************)
(* Model of datatalk's configuration store, provider detection and Azure   *)
(* deployment-URL parsing (src/datatalk/config.py, src/datatalk/llm/       *)
(* factory.py), of the translation of a question by the LLM providers      *)
(* (src/datatalk/llm, src/datatalk/query.py, src/geodatatalk/geollm.py,    *)
(* src/geodatatalk/geoquery.py), of the vector queries                     *)
(* (src/geodatatalk/geodatabase.py) and of the command-line runs           *)
(* (src/datatalk/main.py, src/geodatatalk/main.py).  Text values are       *)
(* sequences of one-character strings, so that emptiness tests, stripping, *)
(* prefix tests, substring search, split and pattern substitution are      *)
(* computed as the Python code computes them.                              *)
(***************************************************************************)
EXTENDS Integers, Sequences, FiniteSets, TLC

VARIABLES
    env,        \* process environment: key -> text or Unset
    config,     \* in-memory configuration mapping: key -> text or Unset (absent)
    disk,       \* configuration file: NoFile, or the mapping it holds
    loaded,     \* the mapping load_config returned at start (never changes)
    pc,         \* position of the run
    provider,   \* provider id returned by detect_llm_provider ("" before)
    auto,       \* TRUE when the provider was selected without the menu
    warning,    \* provider named by the "preferring" warning ("" when none printed)
    menuShown,  \* how many times the provider menu prompt was asked
    todo,       \* keys the running get_<provider>_config still has to resolve
    got,        \* key -> value get_env_var returned in the current resolution
    asking,     \* key of the open prompt ("" when none)
    prompts,    \* log of the keys prompted for, in order
    answered,   \* key -> accepted prompt answer (Unset when none)
    writes,     \* number of save_config calls
    input,      \* raw input consumed by the last step (NoInput when none)
    exitCode,   \* process exit code (-1 while running)
    client,     \* the provider object built by create_provider (NoClient before)
    later,      \* number of later resolutions of the provider's keys
    url,        \* argument of parse_target_url (SpecUrl)
    form,       \* the parts url was assembled from, NoForm for a free-form url
    parsed,     \* result of parse_target_url (SpecUrl)
    reply,      \* what the LLM service answers to the request (SpecSql, SpecGeo)
    shape,      \* the parts the reply was assembled from, NoShape for a free-form one
    llm,        \* the provider whose to_sql was called ("main": llm_to_sql of main.py)
    translated, \* what to_sql / to_geo_operation gave (NotRun before)
    rows,       \* number of rows of the table events (SpecSql)
    result,     \* what process_query returned
    dataType,   \* data_info['data_type'] of the geospatial dataset (SpecGeo)
    app,        \* the program that runs: "datatalk" or "geodatatalk" (SpecMain)
    mode,       \* "oneshot" (-p/--prompt) or "interactive"
    table,      \* columns of the table events, in order
    schemaInfo, \* main's schema_info (Unset before the load)
    passed,     \* the schema argument of each translation request, in order
    computed,   \* number of get_schema calls
    printed,    \* kinds of messages printed so far
    handler,    \* the handler that took the KeyboardInterrupt ("" when none)
    asked,      \* number of queries processed in the interactive loop
    outcome,    \* what the last step raised, and where
    samples,    \* number of suggested questions on display
    args,       \* the parsed command line
    question,   \* the last answer typed at the question prompt (NoInput before)
    jsonOut,    \* the documents output_json printed, in order
    requests,   \* number of requests sent to the LLM
    layerFilter, \* the spatial filter set on layer 0 of the dataset (SpecFeatures)
    call,       \* the arguments of the last query_features call
    features    \* what the last query_features call returned

vars == <<env, config, disk, loaded, pc, provider, auto, warning, menuShown, todo,
          got, asking, prompts, answered, writes, input, exitCode, client, later,
          url, form, parsed, reply, shape, llm, translated, rows, result, dataType,
          app, mode, table, schemaInfo, passed, computed, printed, handler, asked,
          outcome, samples, args, question, jsonOut, requests, layerFilter, call,
          features>>

runVars == <<env, config, disk, loaded, pc, provider, auto, warning, menuShown, todo,
             got, asking, prompts, answered, writes, input, exitCode, client, later>>

\* the variables of the configuration and URL models but pc and exitCode
configVars == <<env, config, disk, loaded, provider, auto, warning, menuShown, todo,
                got, asking, prompts, answered, writes, input, client, later, url,
                form, parsed>>

\* the configuration and URL variables but the file
configRestVars == <<env, config, loaded, provider, auto, warning, menuShown, todo,
                    got, asking, prompts, answered, writes, input, client, later, url,
                    form, parsed>>

sqlVars == <<reply, shape, llm, translated, rows, result>>

featureVars == <<layerFilter, call, features>>

geoVars == <<dataType, featureVars>>

mainVars == <<app, mode, table, schemaInfo, passed, computed, printed, handler, asked,
              outcome, samples, args, question, jsonOut, requests>>

llmVars == <<sqlVars, geoVars, mainVars>>

-----------------------------------------------------------------------------
(* Bounds *)

\* at most this many (source, key) slots hold a value at start
MaxPresent == 2

\* at most this many invalid menu answers in a run
MaxInvalid == 2

\* at most this many later resolutions of the provider's keys in a run
MaxLaterCalls == 1

\* free-form URLs are concatenations of at most this many pieces
MaxUrlPieces == 3

\* free-form replies of the LLM are concatenations of at most this many pieces
MaxSqlPieces == 3

\* the table events has at most this many rows
MaxRows == 3

\* a vendor error text starts with at most this many exception-class prefixes
MaxErrPrefixes == 3

\* at most this many queries are processed in an interactive run
MaxQuestions == 2

-----------------------------------------------------------------------------
(* Text *)

\* Python None / a key that is not set
Unset == <<"None">>

\* KeyboardInterrupt or EOFError raised by the prompt
Cancel == <<"^C">>

\* rich's "no default" marker (Ellipsis)
Ellipsis == <<"...">>

NoInput == <<"-">>

\* bool(value) of an optional string
Truthy(v) == v # Unset /\ v # <<>>

\* the backquote character (a string of the module cannot hold it)
Backtick == "backquote"

\* the characters str.strip removes and \s matches
Whitespace == {" ", "\n", "\t"}

RECURSIVE LStrip(_)
LStrip(s) == IF s # <<>> /\ Head(s) \in Whitespace THEN LStrip(Tail(s)) ELSE s

RECURSIVE RStrip(_)
RStrip(s) == IF s # <<>> /\ s[Len(s)] \in Whitespace THEN RStrip(SubSeq(s, 1, Len(s) - 1)) ELSE s

\* str.strip()
Strip(s) == RStrip(LStrip(s))

\* positions at which sub occurs in s
Occurrences(s, sub) ==
    {i \in 1..(Len(s) - Len(sub) + 1) : SubSeq(s, i, i + Len(sub) - 1) = sub}

\* Python: sub in s
Contains(s, sub) == Occurrences(s, sub) # {}

\* 1-based index of the first occurrence of sub in s, 0 when there is none
Find(s, sub) ==
    LET I == Occurrences(s, sub)
    IN IF I = {} THEN 0 ELSE CHOOSE i \in I : \A j \in I : i <= j

\* Python: s.split(sep), for a non-empty sep
RECURSIVE Split(_, _)
Split(s, sep) ==
    LET i == Find(s, sep)
    IN IF i = 0
       THEN <<s>>
       ELSE <<SubSeq(s, 1, i - 1)>> \o Split(SubSeq(s, i + Len(sep), Len(s)), sep)

-----------------------------------------------------------------------------
(* Keys and providers *)

Keys == {"OLLAMA_BASE_URL", "OLLAMA_MODEL", "ANTHROPIC_API_KEY", "ANTHROPIC_MODEL",
         "GEMINI_API_KEY", "GEMINI_MODEL", "OPENAI_API_KEY", "OPENAI_MODEL",
         "AZURE_OPENAI_API_KEY", "AZURE_DEPLOYMENT_TARGET_URL"}

Providers == {"ollama", "anthropic", "gemini", "openai", "azure"}

\* the keys each get_<provider>_config resolves, in the order it resolves them
ProviderKeys(p) ==
    CASE p = "ollama"    -> <<"OLLAMA_BASE_URL", "OLLAMA_MODEL">>
      [] p = "anthropic" -> <<"ANTHROPIC_API_KEY", "ANTHROPIC_MODEL">>
      [] p = "gemini"    -> <<"GEMINI_API_KEY", "GEMINI_MODEL">>
      [] p = "openai"    -> <<"OPENAI_API_KEY", "OPENAI_MODEL">>
      [] p = "azure"     -> <<"AZURE_DEPLOYMENT_TARGET_URL", "AZURE_OPENAI_API_KEY">>

-----------------------------------------------------------------------------
(* Configuration file: load_config, save_config *)

NoFile == [exists |-> FALSE]

EmptyConfig == [k \in Keys |-> Unset]

\* load_config: the file's mapping, {} when the file does not exist
load_config(d) == IF d = NoFile THEN EmptyConfig ELSE d.content

\* a save that leaves out the keys whose value is empty
save_config_skip_empty(c) ==
    [exists |-> TRUE, content |-> [k \in Keys |-> IF Truthy(c[k]) THEN c[k] ELSE Unset]]

\* save_config: the file is overwritten with the whole mapping
save_config(c) == [exists |-> TRUE, content |-> c]

-----------------------------------------------------------------------------
(* detect_llm_provider: presence checks *)

has_ollama_env(e) == Truthy(e["OLLAMA_BASE_URL"]) \/ Truthy(e["OLLAMA_MODEL"])
has_anthropic_env(e) == Truthy(e["ANTHROPIC_API_KEY"])
has_gemini_env(e) == Truthy(e["GEMINI_API_KEY"])
has_azure_env(e) ==
    Truthy(e["AZURE_OPENAI_API_KEY"]) \/ Truthy(e["AZURE_DEPLOYMENT_TARGET_URL"])
has_openai_env(e) == Truthy(e["OPENAI_API_KEY"])

has_ollama_config(c) == Truthy(c["OLLAMA_BASE_URL"]) \/ Truthy(c["OLLAMA_MODEL"])
has_anthropic_config(c) == Truthy(c["ANTHROPIC_API_KEY"]) \/ Truthy(c["ANTHROPIC_MODEL"])
has_gemini_config(c) == Truthy(c["GEMINI_API_KEY"]) \/ Truthy(c["GEMINI_MODEL"])
has_azure_config(c) ==
    Truthy(c["AZURE_OPENAI_API_KEY"]) \/ Truthy(c["AZURE_DEPLOYMENT_TARGET_URL"])
has_openai_config(c) == Truthy(c["OPENAI_API_KEY"]) \/ Truthy(c["OPENAI_MODEL"])

\* the provider-level test of each branch of the priority chain
Has(p, e, c) ==
    CASE p = "ollama"    -> has_ollama_env(e) \/ has_ollama_config(c)
      [] p = "anthropic" -> has_anthropic_env(e) \/ has_anthropic_config(c)
      [] p = "gemini"    -> has_gemini_env(e) \/ has_gemini_config(c)
      [] p = "openai"    -> has_openai_env(e) \/ has_openai_config(c)
      [] p = "azure"     -> has_azure_env(e) \/ has_azure_config(c)

\* the chain with the gemini and openai branches in the wrong order
DetectOpenaiFirst(e, c) ==
    IF Has("ollama", e, c)
    THEN [provider |-> "ollama",
          warning |-> IF \E q \in {"anthropic", "gemini", "openai", "azure"} : Has(q, e, c)
                      THEN "ollama" ELSE ""]
    ELSE IF Has("anthropic", e, c)
    THEN [provider |-> "anthropic",
          warning |-> IF \E q \in {"gemini", "openai", "azure"} : Has(q, e, c)
                      THEN "anthropic" ELSE ""]
    ELSE IF Has("openai", e, c)
    THEN [provider |-> "openai",
          warning |-> IF Has("gemini", e, c) \/ Has("azure", e, c) THEN "openai" ELSE ""]
    ELSE IF Has("gemini", e, c)
    THEN [provider |-> "gemini", warning |-> IF Has("azure", e, c) THEN "gemini" ELSE ""]
    ELSE IF Has("azure", e, c)
    THEN [provider |-> "azure", warning |-> ""]
    ELSE [provider |-> "", warning |-> ""]

\* the chain falling back to openai, without the menu, when nothing is present
DetectFallbackOpenai(e, c) ==
    IF Has("ollama", e, c)
    THEN [provider |-> "ollama",
          warning |-> IF \E q \in {"anthropic", "gemini", "openai", "azure"} : Has(q, e, c)
                      THEN "ollama" ELSE ""]
    ELSE IF Has("anthropic", e, c)
    THEN [provider |-> "anthropic",
          warning |-> IF \E q \in {"gemini", "openai", "azure"} : Has(q, e, c)
                      THEN "anthropic" ELSE ""]
    ELSE IF Has("gemini", e, c)
    THEN [provider |-> "gemini",
          warning |-> IF Has("openai", e, c) \/ Has("azure", e, c) THEN "gemini" ELSE ""]
    ELSE IF Has("openai", e, c)
    THEN [provider |-> "openai", warning |-> IF Has("azure", e, c) THEN "openai" ELSE ""]
    ELSE IF Has("azure", e, c)
    THEN [provider |-> "azure", warning |-> ""]
    ELSE [provider |-> "openai", warning |-> ""]

\* the chain with the warning of the openai branch left out
DetectNoOpenaiWarning(e, c) ==
    IF Has("ollama", e, c)
    THEN [provider |-> "ollama",
          warning |-> IF \E q \in {"anthropic", "gemini", "openai", "azure"} : Has(q, e, c)
                      THEN "ollama" ELSE ""]
    ELSE IF Has("anthropic", e, c)
    THEN [provider |-> "anthropic",
          warning |-> IF \E q \in {"gemini", "openai", "azure"} : Has(q, e, c)
                      THEN "anthropic" ELSE ""]
    ELSE IF Has("gemini", e, c)
    THEN [provider |-> "gemini",
          warning |-> IF Has("openai", e, c) \/ Has("azure", e, c) THEN "gemini" ELSE ""]
    ELSE IF Has("openai", e, c)
    THEN [provider |-> "openai", warning |-> ""]
    ELSE IF Has("azure", e, c)
    THEN [provider |-> "azure", warning |-> ""]
    ELSE [provider |-> "", warning |-> ""]

\* detect_llm_provider up to the menu: the provider returned and the provider the
\* "preferring" warning names; provider "" when the menu has to be shown
Detect(e, c) ==
    IF has_ollama_env(e) \/ has_ollama_config(c)
    THEN [provider |-> "ollama",
          warning |-> IF \/ has_anthropic_env(e) \/ has_anthropic_config(c)
                         \/ has_gemini_env(e) \/ has_gemini_config(c)
                         \/ has_openai_env(e) \/ has_openai_config(c)
                         \/ has_azure_env(e) \/ has_azure_config(c)
                      THEN "ollama" ELSE ""]
    ELSE IF has_anthropic_env(e) \/ has_anthropic_config(c)
    THEN [provider |-> "anthropic",
          warning |-> IF \/ has_gemini_env(e) \/ has_gemini_config(c)
                         \/ has_openai_env(e) \/ has_openai_config(c)
                         \/ has_azure_env(e) \/ has_azure_config(c)
                      THEN "anthropic" ELSE ""]
    ELSE IF has_gemini_env(e) \/ has_gemini_config(c)
    THEN [provider |-> "gemini",
          warning |-> IF \/ (has_openai_env(e) \/ has_openai_config(c))
                         \/ (has_azure_env(e) \/ has_azure_config(c))
                      THEN "gemini" ELSE ""]
    ELSE IF has_openai_env(e) \/ has_openai_config(c)
    THEN [provider |-> "openai",
          warning |-> IF has_azure_env(e) \/ has_azure_config(c) THEN "openai" ELSE ""]
    ELSE IF has_azure_env(e) \/ has_azure_config(c)
    THEN [provider |-> "azure", warning |-> ""]
    ELSE [provider |-> "", warning |-> ""]

-----------------------------------------------------------------------------
(* detect_llm_provider: the fallback menu *)

MenuChoices ==
    {<<"1">>, <<"2">>, <<"3">>, <<"4">>, <<"5">>,
     <<"o", "p", "e", "n", "a", "i">>, <<"a", "z", "u", "r", "e">>,
     <<"a", "n", "t", "h", "r", "o", "p", "i", "c">>, <<"o", "l", "l", "a", "m", "a">>,
     <<"g", "e", "m", "i", "n", "i">>}

\* what the user may type at the menu
MenuInputs == MenuChoices \cup {<<>>, <<"9">>, <<"x">>}

Invalid == <<"invalid">>

\* Prompt.ask(choices=..., default="1"): an empty answer is the default, an answer
\* outside the choices is refused by the prompt itself, which asks again
MenuAsk(raw) ==
    IF raw = <<>> THEN <<"1">>
    ELSE IF Strip(raw) \in MenuChoices THEN Strip(raw)
    ELSE Invalid

\* the chain with the branches of "2" and "4" exchanged
MenuProviderSwapped(choice) ==
    IF choice \in {<<"1">>, <<"o", "p", "e", "n", "a", "i">>} THEN "openai"
    ELSE IF choice \in {<<"4">>, <<"a", "z", "u", "r", "e">>} THEN "azure"
    ELSE IF choice \in {<<"3">>, <<"a", "n", "t", "h", "r", "o", "p", "i", "c">>}
    THEN "anthropic"
    ELSE IF choice \in {<<"2">>, <<"o", "l", "l", "a", "m", "a">>} THEN "ollama"
    ELSE IF choice \in {<<"5">>, <<"g", "e", "m", "i", "n", "i">>} THEN "gemini"
    ELSE ""

\* the if/elif chain on the (lower-case) choice; "" when no branch matches
MenuProvider(choice) ==
    IF choice \in {<<"1">>, <<"o", "p", "e", "n", "a", "i">>} THEN "openai"
    ELSE IF choice \in {<<"2">>, <<"a", "z", "u", "r", "e">>} THEN "azure"
    ELSE IF choice \in {<<"3">>, <<"a", "n", "t", "h", "r", "o", "p", "i", "c">>}
    THEN "anthropic"
    ELSE IF choice \in {<<"4">>, <<"o", "l", "l", "a", "m", "a">>} THEN "ollama"
    ELSE IF choice \in {<<"5">>, <<"g", "e", "m", "i", "n", "i">>} THEN "gemini"
    ELSE ""

-----------------------------------------------------------------------------
(* get_env_var *)

ApiKeyNames ==
    {"AZURE_OPENAI_API_KEY", "OPENAI_API_KEY", "ANTHROPIC_API_KEY", "GEMINI_API_KEY"}

UnknownName == <<"unknown">>

\* the default of the Prompt.ask call of each branch: Ellipsis where none is given,
\* Unset (None) for the target URL, UnknownName for a name no branch handles
PromptDefault(name) ==
    IF name \in ApiKeyNames THEN Ellipsis
    ELSE IF name = "AZURE_DEPLOYMENT_TARGET_URL" THEN Unset
    ELSE IF name = "OPENAI_MODEL" THEN <<"g", "p", "t", "-", "4", "o">>
    ELSE IF name = "ANTHROPIC_MODEL" THEN <<"c", "l", "a", "u", "d", "e", "-", "3", "-", "5", "-", "s", "o", "n", "n", "e", "t", "-", "2", "0", "2", "4", "1", "0", "2", "2">>
    ELSE IF name = "OLLAMA_BASE_URL" THEN <<"h", "t", "t", "p", ":", "/", "/", "l", "o", "c", "a", "l", "h", "o", "s", "t", ":", "1", "1", "4", "3", "4", "/", "v", "1">>
    ELSE IF name = "OLLAMA_MODEL" THEN <<"l", "l", "a", "m", "a", "3", ".", "1">>
    ELSE IF name = "GEMINI_MODEL" THEN <<"g", "e", "m", "i", "n", "i", "-", "1", ".", "5", "-", "f", "l", "a", "s", "h">>
    ELSE UnknownName

\* Prompt.ask without choices: an empty answer gives the default when there is one,
\* any other answer is returned stripped
PromptAsk(raw, default) ==
    IF raw = <<>> /\ default # Ellipsis THEN default ELSE Strip(raw)

\* the lookup with the saved configuration consulted before the environment
get_env_var_config_first(name, e, c) ==
    IF c[name] # Unset THEN [kind |-> "return", value |-> c[name]]
    ELSE IF Truthy(e[name]) THEN [kind |-> "return", value |-> e[name]]
    ELSE [kind |-> "prompt", value |-> Unset]

\* get_env_var up to the prompt: the environment value when it is truthy, else the
\* configuration's value when the name is in the mapping, else the user is asked
get_env_var(name, e, c) ==
    IF Truthy(e[name]) THEN [kind |-> "return", value |-> e[name]]
    ELSE IF c[name] # Unset THEN [kind |-> "return", value |-> c[name]]
    ELSE [kind |-> "prompt", value |-> Unset]

\* an answer handler that forgets config[name] = value
after_prompt_not_stored(name, raw, c) ==
    IF raw = Cancel THEN [kind |-> "exit", code |-> 0, value |-> Unset, config |-> c]
    ELSE IF ~Truthy(PromptAsk(raw, PromptDefault(name)))
    THEN [kind |-> "exit", code |-> 1, value |-> Unset, config |-> c]
    ELSE [kind |-> "return", code |-> -1, value |-> PromptAsk(raw, PromptDefault(name)),
          config |-> c]

\* an answer handler that treats a cancelled prompt as an error
after_prompt_cancel_fails(name, raw, c) ==
    IF raw = Cancel \/ ~Truthy(PromptAsk(raw, PromptDefault(name)))
    THEN [kind |-> "exit", code |-> 1, value |-> Unset, config |-> c]
    ELSE [kind |-> "return", code |-> -1, value |-> PromptAsk(raw, PromptDefault(name)),
          config |-> [c EXCEPT ![name] = PromptAsk(raw, PromptDefault(name))]]

\* get_env_var from the prompt on: a cancelled prompt exits with 0, a falsy value
\* exits with 1, any other value is put into the mapping and returned
after_prompt(name, raw, c) ==
    IF raw = Cancel THEN [kind |-> "exit", code |-> 0, value |-> Unset, config |-> c]
    ELSE IF ~Truthy(PromptAsk(raw, PromptDefault(name)))
    THEN [kind |-> "exit", code |-> 1, value |-> Unset, config |-> c]
    ELSE [kind |-> "return", code |-> -1, value |-> PromptAsk(raw, PromptDefault(name)),
          config |-> [c EXCEPT ![name] = PromptAsk(raw, PromptDefault(name))]]

-----------------------------------------------------------------------------
(* parse_target_url *)

OpenaiDeployments == <<"/", "o", "p", "e", "n", "a", "i", "/", "d", "e", "p", "l", "o", "y", "m", "e", "n", "t", "s", "/">>

ApiVersionEq == <<"a", "p", "i", "-", "v", "e", "r", "s", "i", "o", "n", "=">>

\* the claimed path-segment test
DeploymentsSegment == <<"/", "d", "e", "p", "l", "o", "y", "m", "e", "n", "t", "s", "/">>

ParseError(msg) ==
    [ok |-> FALSE, error |-> msg, endpoint |-> <<>>, deployment |-> <<>>, version |-> <<>>]

\* a parser that tests for "/deployments/" where the code tests for
\* "/openai/deployments/"
parse_target_url_short_marker(target_url) ==
    IF ~Contains(target_url, DeploymentsSegment) THEN ParseError("format")
    ELSE IF ~Contains(target_url, ApiVersionEq) THEN ParseError("version")
    ELSE [ok |-> TRUE, error |-> "",
          endpoint |-> Split(target_url, DeploymentsSegment)[1] \o <<"/">>,
          deployment |-> Split(Split(target_url, DeploymentsSegment)[2], <<"/">>)[1],
          version |-> Split(Split(target_url, ApiVersionEq)[2], <<"&">>)[1]]

\* a parser that takes the whole text after "api-version=" as the version
parse_target_url_no_amp(target_url) ==
    IF ~Contains(target_url, OpenaiDeployments) THEN ParseError("format")
    ELSE IF ~Contains(target_url, ApiVersionEq) THEN ParseError("version")
    ELSE [ok |-> TRUE, error |-> "",
          endpoint |-> Split(target_url, OpenaiDeployments)[1] \o <<"/">>,
          deployment |-> Split(Split(target_url, OpenaiDeployments)[2], <<"/">>)[1],
          version |-> Split(target_url, ApiVersionEq)[2]]

\* parse_target_url: (endpoint, deployment_name, api_version), or the ValueError
parse_target_url(target_url) ==
    IF ~Contains(target_url, OpenaiDeployments) THEN ParseError("format")
    ELSE IF ~Contains(target_url, ApiVersionEq) THEN ParseError("version")
    ELSE [ok |-> TRUE, error |-> "",
          endpoint |-> Split(target_url, OpenaiDeployments)[1] \o <<"/">>,
          deployment |-> Split(Split(target_url, OpenaiDeployments)[2], <<"/">>)[1],
          version |-> Split(Split(target_url, ApiVersionEq)[2], <<"&">>)[1]]

-----------------------------------------------------------------------------
(* get_azure_config, create_provider *)

TargetUrlKey == "AZURE_DEPLOYMENT_TARGET_URL"

\* get_azure_config's own lookup of the target URL: the environment value or the
\* configuration's, each when truthy, and get_env_var when neither is
azure_target_url(e, c) ==
    IF Truthy(e[TargetUrlKey]) THEN [kind |-> "return", value |-> e[TargetUrlKey]]
    ELSE IF Truthy(c[TargetUrlKey]) THEN [kind |-> "return", value |-> c[TargetUrlKey]]
    ELSE get_env_var(TargetUrlKey, e, c)

\* the lookup get_<provider>_config performs for one of its keys
Resolve(p, name, e, c) ==
    IF p = "azure" /\ name = TargetUrlKey
    THEN azure_target_url(e, c)
    ELSE get_env_var(name, e, c)

NoClient == [type |-> "", args |-> <<>>]

\* the provider object create_provider returns for the resolved values g
Client(p, g) ==
    IF p = "azure"
    THEN [type |-> "azure",
          args |-> <<g["AZURE_OPENAI_API_KEY"],
                     parse_target_url(g[TargetUrlKey]).endpoint,
                     parse_target_url(g[TargetUrlKey]).deployment,
                     parse_target_url(g[TargetUrlKey]).version>>]
    ELSE [type |-> p, args |-> <<g[ProviderKeys(p)[1]], g[ProviderKeys(p)[2]]>>]

-----------------------------------------------------------------------------
(* Inputs *)

\* a well-formed deployment target URL whose host is the one-letter text tag
GoodUrl(tag) ==
    <<tag>> \o OpenaiDeployments \o <<"g", "/", "c", "?">> \o ApiVersionEq \o <<"1">>

\* the non-absent values a key may hold in a source: empty, a short text naming the
\* source and, for the target URL, a well-formed URL
ValuesAt(tag, k) ==
    {<<>>, <<tag>>} \cup (IF k = TargetUrlKey THEN {GoodUrl(tag)} ELSE {})

SourceTag(src) == IF src = "env" THEN "e" ELSE "c"

Slots == {"env", "config"} \X Keys

RECURSIVE SubsetsUpTo(_, _)
SubsetsUpTo(S, n) ==
    IF n = 0 THEN {{}}
    ELSE LET R == SubsetsUpTo(S, n - 1)
         IN R \cup {T \cup {x} : T \in R, x \in S}

StartValues == UNION {ValuesAt(SourceTag(s[1]), s[2]) : s \in Slots}

\* what the user may answer at the prompt for key k
PromptInputs(k) ==
    {Cancel, <<>>, <<" ">>, <<"p">>} \cup (IF k = TargetUrlKey THEN {GoodUrl("p")} ELSE {})

NoForm == [base |-> Unset, name |-> Unset, rest |-> Unset, v |-> Unset, more |-> Unset]

NotParsed == ParseError("not parsed")

-----------------------------------------------------------------------------
(* Values of the translation and main-loop variables before anything ran *)

NoReply == [kind |-> "none", text |-> Unset]

NoShape == [open |-> Unset, tag |-> Unset, sep |-> Unset, query |-> Unset, close |-> Unset]

\* no call has returned yet
NotRun == [ok |-> FALSE, error |-> Unset, sql |-> Unset]

\* Python None where a DataFrame is expected
NoFrame == [present |-> FALSE, values |-> <<>>]

NoResult == [sql |-> Unset, dataframe |-> NoFrame, error |-> Unset]

NoOutcome == [at |-> "none", exc |-> "none"]

SqlIdle ==
    /\ reply = NoReply
    /\ shape = NoShape
    /\ llm = ""
    /\ translated = NotRun
    /\ rows = 0
    /\ result = NoResult

\* no bounding box: Python None (or an empty list) where a box is expected
NoBox == [given |-> FALSE, rect |-> <<0, 0, 0, 0>>]

\* no SQL text
NoSql == [given |-> FALSE, kind |-> ""]

NoCall == [sql |-> NoSql, bbox |-> NoBox, limit |-> 0]

NoFeatures == [ok |-> FALSE, ids |-> <<>>]

FeaturesIdle ==
    /\ layerFilter = NoBox
    /\ call = NoCall
    /\ features = NoFeatures

GeoIdle == dataType = "" /\ FeaturesIdle

NoArgs == [file |-> Unset, prompt |-> Unset, json |-> FALSE, config_info |-> FALSE,
           reset_config |-> FALSE]

MainIdle ==
    /\ app = ""
    /\ mode = ""
    /\ table = <<>>
    /\ schemaInfo = Unset
    /\ passed = <<>>
    /\ computed = 0
    /\ printed = {}
    /\ handler = ""
    /\ asked = 0
    /\ outcome = NoOutcome
    /\ samples = 0
    /\ args = NoArgs
    /\ question = NoInput
    /\ jsonOut = <<>>
    /\ requests = 0

LlmIdle == SqlIdle /\ GeoIdle /\ MainIdle

-----------------------------------------------------------------------------
(* A run: load_config, create_provider, later resolutions *)

Init ==
    \E S \in SubsetsUpTo(Slots, MaxPresent) :
      \E f \in [S -> StartValues] :
        /\ \A s \in S : f[s] \in ValuesAt(SourceTag(s[1]), s[2])
        /\ env = [k \in Keys |-> IF <<"env", k>> \in S THEN f[<<"env", k>>] ELSE Unset]
        /\ config = [k \in Keys |->
                       IF <<"config", k>> \in S THEN f[<<"config", k>>] ELSE Unset]
        /\ disk \in (IF config = EmptyConfig THEN {NoFile} ELSE {})
                      \cup {[exists |-> TRUE, content |-> config]}
        /\ loaded = config
        /\ pc = "start"
        /\ provider = ""
        /\ auto = FALSE
        /\ warning = ""
        /\ menuShown = 0
        /\ todo = <<>>
        /\ got = EmptyConfig
        /\ asking = ""
        /\ prompts = <<>>
        /\ answered = EmptyConfig
        /\ writes = 0
        /\ input = NoInput
        /\ exitCode = -1
        /\ client = NoClient
        /\ later = 0
        /\ url = <<>>
        /\ form = NoForm
        /\ parsed = NotParsed
        /\ LlmIdle

\* sys.exit(code)
Exit(code) ==
    /\ pc' = "exited"
    /\ exitCode' = code

\* create_provider calls detect_llm_provider: a provider is selected from the keys
\* present, or the menu is shown
DetectLlmProvider ==
    /\ pc = "start"
    /\ IF Detect(env, config).provider # ""
       THEN /\ provider' = Detect(env, config).provider
            /\ warning' = Detect(env, config).warning
            /\ auto' = TRUE
            /\ todo' = ProviderKeys(Detect(env, config).provider)
            /\ pc' = "resolve"
            /\ UNCHANGED menuShown
       ELSE /\ pc' = "menu"
            /\ menuShown' = 1
            /\ UNCHANGED <<provider, warning, auto, todo>>
    /\ input' = NoInput
    /\ UNCHANGED <<env, config, disk, loaded, got, asking, prompts, answered, writes,
                   exitCode, client, later, url, form, parsed>>
    /\ UNCHANGED llmVars

\* the user answers the menu: cancel exits with 0, an answer outside the choices is
\* asked again, a choice returns its provider
MenuAnswer(raw) ==
    /\ pc = "menu"
    /\ input' = raw
    /\ IF raw = Cancel
       THEN /\ Exit(0)
            /\ UNCHANGED <<provider, auto, todo, menuShown>>
       ELSE IF MenuAsk(raw) = Invalid \/ MenuProvider(MenuAsk(raw)) = ""
       THEN /\ menuShown <= MaxInvalid
            /\ menuShown' = menuShown + 1
            /\ UNCHANGED <<pc, exitCode, provider, auto, todo>>
       ELSE /\ provider' = MenuProvider(MenuAsk(raw))
            /\ auto' = FALSE
            /\ todo' = ProviderKeys(MenuProvider(MenuAsk(raw)))
            /\ pc' = "resolve"
            /\ UNCHANGED <<exitCode, menuShown>>
    /\ UNCHANGED <<env, config, disk, loaded, warning, got, asking, prompts, answered,
                   writes, client, later, url, form, parsed>>
    /\ UNCHANGED llmVars

\* get_<provider>_config resolves its next key: the value is returned from the
\* environment or the configuration, or the prompt is opened
GetEnvVar ==
    /\ pc = "resolve"
    /\ todo # <<>>
    /\ input' = NoInput
    /\ LET name == Head(todo)
           r == Resolve(provider, name, env, config)
       IN IF r.kind = "return"
          THEN /\ got' = [got EXCEPT ![name] = r.value]
               /\ todo' = Tail(todo)
               /\ UNCHANGED <<pc, exitCode, asking, prompts>>
          ELSE IF PromptDefault(name) = UnknownName
          THEN /\ Exit(1)
               /\ UNCHANGED <<got, todo, asking, prompts>>
          ELSE /\ pc' = "prompt"
               /\ asking' = name
               /\ prompts' = Append(prompts, name)
               /\ UNCHANGED <<got, todo, exitCode>>
    /\ UNCHANGED <<env, config, disk, loaded, provider, auto, warning, menuShown,
                   answered, writes, client, later, url, form, parsed>>
    /\ UNCHANGED llmVars

\* the user answers the open prompt: cancel exits with 0, a falsy value exits with
\* 1, any other value is stored, saved to the file and returned
AnswerPrompt(raw) ==
    /\ pc = "prompt"
    /\ input' = raw
    /\ LET r == after_prompt(asking, raw, config)
       IN IF r.kind = "exit"
          THEN /\ Exit(r.code)
               /\ UNCHANGED <<config, disk, writes, answered, got, todo, asking>>
          ELSE /\ config' = r.config
               /\ disk' = save_config(r.config)
               /\ writes' = writes + 1
               /\ answered' = [answered EXCEPT ![asking] = r.value]
               /\ got' = [got EXCEPT ![asking] = r.value]
               /\ todo' = Tail(todo)
               /\ asking' = ""
               /\ pc' = "resolve"
               /\ UNCHANGED exitCode
    /\ UNCHANGED <<env, loaded, provider, auto, warning, menuShown, prompts, client,
                   later, url, form, parsed>>
    /\ UNCHANGED llmVars

\* every key is resolved: get_azure_config parses the target URL (exit 1 when it is
\* malformed) and create_provider builds the provider object
BuildProvider ==
    /\ pc = "resolve"
    /\ todo = <<>>
    /\ input' = NoInput
    /\ IF provider = "azure" /\ ~parse_target_url(got[TargetUrlKey]).ok
       THEN /\ Exit(1)
            /\ UNCHANGED client
       ELSE /\ client' = Client(provider, got)
            /\ pc' = "ready"
            /\ UNCHANGED exitCode
    /\ UNCHANGED <<env, config, disk, loaded, provider, auto, warning, menuShown, todo,
                   got, asking, prompts, answered, writes, later, url, form, parsed>>
    /\ UNCHANGED llmVars

\* a caller resolves the provider's keys once more in the same run
ResolveAgain ==
    /\ pc = "ready"
    /\ later < MaxLaterCalls
    /\ later' = later + 1
    /\ todo' = ProviderKeys(provider)
    /\ got' = EmptyConfig
    /\ pc' = "resolve"
    /\ input' = NoInput
    /\ UNCHANGED <<env, config, disk, loaded, provider, auto, warning, menuShown,
                   asking, prompts, answered, writes, exitCode, client, url, form, parsed>>
    /\ UNCHANGED llmVars

Next ==
    \/ DetectLlmProvider
    \/ \E raw \in MenuInputs \cup {Cancel} : MenuAnswer(raw)
    \/ GetEnvVar
    \/ \E raw \in PromptInputs(asking) : AnswerPrompt(raw)
    \/ BuildProvider
    \/ ResolveAgain

Spec == Init /\ [][Next]_vars

-----------------------------------------------------------------------------
(* parse_target_url applied to bounded sets of URLs *)

\* parts of URLs of the form <base>/openai/deployments/<name>/<rest>?api-version=<v><more>
Bases == {<<"h">>, <<"h", "t", "t", "p", "s", ":", "/", "/", "x", ".", "c", "o", "m">>}
Names == {<<>>, <<"g">>, <<"g", "p", "t", "-", "4", "o">>}
Rests == {<<>>, <<"c">>, <<"c", "h", "a", "t", "/", "c", "o", "m", "p", "l", "e", "t", "i", "o", "n", "s">>}
Versions == {<<>>, <<"1">>, <<"2", "0", "2", "4", "-", "0", "1", "-", "0", "1">>}
Mores == {<<>>, <<"&">>, <<"&", "m", "=", "1">>, <<"&", "m", "&", "a", "p", "i", "-", "v", "e", "r", "s", "i", "o", "n", "=", "9">>}

FormUrl(f) ==
    f.base \o OpenaiDeployments \o f.name \o <<"/">> \o f.rest \o <<"?">>
      \o ApiVersionEq \o f.v \o f.more

Forms == [base : Bases, name : Names, rest : Rests, v : Versions, more : Mores]

\* pieces of free-form URLs
FreePieces ==
    {<<"h">>, <<"/">>, <<"&">>, <<"/", "o", "p", "e", "n", "a", "i">>, DeploymentsSegment, OpenaiDeployments,
     ApiVersionEq}

RECURSIVE Concat(_)
Concat(ps) == IF ps = <<>> THEN <<>> ELSE Head(ps) \o Concat(Tail(ps))

FreeUrls == {Concat(ps) : ps \in UNION {[1..n -> FreePieces] : n \in 0..MaxUrlPieces}}

InitUrl ==
    /\ \/ /\ form \in Forms
          /\ url = FormUrl(form)
       \/ /\ form = NoForm
          /\ url \in FreeUrls
    /\ parsed = NotParsed
    /\ env = EmptyConfig
    /\ config = EmptyConfig
    /\ disk = NoFile
    /\ loaded = EmptyConfig
    /\ pc = "parse"
    /\ provider = ""
    /\ auto = FALSE
    /\ warning = ""
    /\ menuShown = 0
    /\ todo = <<>>
    /\ got = EmptyConfig
    /\ asking = ""
    /\ prompts = <<>>
    /\ answered = EmptyConfig
    /\ writes = 0
    /\ input = NoInput
    /\ exitCode = -1
    /\ client = NoClient
    /\ later = 0
    /\ LlmIdle

\* parse_target_url(url) is called
ParseTargetUrl ==
    /\ pc = "parse"
    /\ pc' = "parsed"
    /\ parsed' = parse_target_url(url)
    /\ UNCHANGED <<env, config, disk, loaded, provider, auto, warning, menuShown, todo,
                   got, asking, prompts, answered, writes, input, exitCode, client,
                   later, url, form>>
    /\ UNCHANGED llmVars

NextUrl == ParseTargetUrl

SpecUrl == InitUrl /\ [][NextUrl]_vars

-----------------------------------------------------------------------------
(* Values at rest *)

\* the configuration and URL variables but the file, at rest while a translation
\* or the main loop is examined
ConfigRest ==
    /\ env = EmptyConfig
    /\ config = EmptyConfig
    /\ loaded = EmptyConfig
    /\ provider = ""
    /\ auto = FALSE
    /\ warning = ""
    /\ menuShown = 0
    /\ todo = <<>>
    /\ got = EmptyConfig
    /\ asking = ""
    /\ prompts = <<>>
    /\ answered = EmptyConfig
    /\ writes = 0
    /\ input = NoInput
    /\ client = NoClient
    /\ later = 0
    /\ url = <<>>
    /\ form = NoForm
    /\ parsed = NotParsed

ConfigIdle == ConfigRest /\ disk = NoFile

-----------------------------------------------------------------------------
(* Question to SQL: the providers' to_sql, the sanitizer, process_query *)

\* str.startswith / str.endswith
StartsWith(s, p) == Len(s) >= Len(p) /\ SubSeq(s, 1, Len(p)) = p

EndsWith(s, p) == Len(s) >= Len(p) /\ SubSeq(s, Len(s) - Len(p) + 1, Len(s)) = p

Fence == <<Backtick, Backtick, Backtick>>

FenceSql == <<Backtick, Backtick, Backtick, "s", "q", "l">>

\* a sanitizer that removes fences only when both are there
clean_sql_requires_close(sql) ==
    LET s == Strip(sql)
    IN IF EndsWith(s, Fence) /\ StartsWith(s, FenceSql)
       THEN Strip(SubSeq(s, 7, Len(s) - 3))
       ELSE IF EndsWith(s, Fence) /\ StartsWith(s, Fence) /\ Len(s) >= 6
            THEN Strip(SubSeq(s, 4, Len(s) - 3))
            ELSE s

\* BaseLLMProvider._clean_sql
clean_sql(sql) ==
    LET s1 == Strip(sql)
        s2 == IF StartsWith(s1, FenceSql) THEN SubSeq(s1, 7, Len(s1))
              ELSE IF StartsWith(s1, Fence) THEN SubSeq(s1, 4, Len(s1))
              ELSE s1
        s3 == IF EndsWith(s2, Fence) THEN SubSeq(s2, 1, Len(s2) - 3) ELSE s2
    IN Strip(s3)

\* a call that returned sql / a call that raised an exception whose text is msg
Returned(sql) == [ok |-> TRUE, error |-> Unset, sql |-> sql]

Raised(msg) == [ok |-> FALSE, error |-> msg, sql |-> Unset]

NoContentReturnedFrom == <<"N", "o", " ", "c", "o", "n", "t", "e", "n", "t", " ", "r", "e", "t", "u", "r", "n", "e", "d", " ", "f", "r", "o", "m", " ">>

\* The reply of the LLM service to chat.completions.create / messages.create /
\* generate_content: kind "raise" is an exception raised by the call (text is
\* its message), kind "content" a response whose text content is `text`
\* (Unset: content None; for Anthropic an empty list of content blocks).

\* OpenAIProvider.to_sql
openai_to_sql(r) ==
    IF r.kind = "raise" THEN Raised(r.text)
    ELSE IF r.text = Unset THEN Raised(NoContentReturnedFrom \o <<"O", "p", "e", "n", "A", "I">>)
    ELSE Returned(clean_sql(r.text))

\* AzureOpenAIProvider.to_sql
azure_to_sql(r) ==
    IF r.kind = "raise" THEN Raised(r.text)
    ELSE IF r.text = Unset THEN Raised(NoContentReturnedFrom \o <<"A", "z", "u", "r", "e", " ", "O", "p", "e", "n", "A", "I">>)
    ELSE Returned(clean_sql(r.text))

\* OllamaProvider.to_sql
ollama_to_sql(r) ==
    IF r.kind = "raise" THEN Raised(r.text)
    ELSE IF r.text = Unset THEN Raised(NoContentReturnedFrom \o <<"O", "l", "l", "a", "m", "a">>)
    ELSE Returned(clean_sql(r.text))

\* AnthropicProvider.to_sql: the test is on the list of content blocks, the text
\* of the first block is taken as it is
anthropic_to_sql(r) ==
    IF r.kind = "raise" THEN Raised(r.text)
    ELSE IF r.text = Unset THEN Raised(NoContentReturnedFrom \o <<"A", "n", "t", "h", "r", "o", "p", "i", "c">>)
    ELSE Returned(clean_sql(r.text))

\* GeminiProvider.to_sql: `if not response.text`
gemini_to_sql(r) ==
    IF r.kind = "raise" THEN Raised(r.text)
    ELSE IF ~Truthy(r.text) THEN Raised(NoContentReturnedFrom \o <<"G", "e", "m", "i", "n", "i">>)
    ELSE Returned(clean_sql(r.text))

\* provider.to_sql(question, schema)
to_sql(p, r) ==
    CASE p = "openai" -> openai_to_sql(r)
      [] p = "azure" -> azure_to_sql(r)
      [] p = "ollama" -> ollama_to_sql(r)
      [] p = "anthropic" -> anthropic_to_sql(r)
      [] p = "gemini" -> gemini_to_sql(r)

\* llm_to_sql of main.py: the same steps written inline
llm_to_sql(r) ==
    IF r.kind = "raise" THEN Raised(r.text)
    ELSE IF r.text = Unset THEN Raised(NoContentReturnedFrom \o <<"A", "I">>)
    ELSE LET s1 == Strip(r.text)
             s2 == IF StartsWith(s1, FenceSql) THEN SubSeq(s1, 7, Len(s1))
                   ELSE IF StartsWith(s1, Fence) THEN SubSeq(s1, 4, Len(s1))
                   ELSE s1
             s3 == IF EndsWith(s2, Fence) THEN SubSeq(s2, 1, Len(s2) - 3) ELSE s2
         IN Returned(Strip(s3))

CountQuery == <<"S", "E", "L", "E", "C", "T", " ", "C", "O", "U", "N", "T", "(", "*", ")", " ", "F", "R", "O", "M", " ", "e", "v", "e", "n", "t", "s">>

SelectOne == <<"S", "E", "L", "E", "C", "T", " ", "1">>

SelectQuoted == <<"S", "E", "L", "E", "C", "T", " ", Backtick, "a", Backtick>>

Frame(vals) == [present |-> TRUE, values |-> vals]

\* database.execute_query on a table `events` of n rows: DuckDB runs the
\* queries below and raises on any other text of the model (the empty text
\* included: no statement, so no result to convert)
execute_query(n, sql) ==
    IF sql = CountQuery THEN [ok |-> TRUE, df |-> Frame(<<n>>), error |-> Unset]
    ELSE IF sql = SelectOne THEN [ok |-> TRUE, df |-> Frame(<<1>>), error |-> Unset]
    ELSE IF sql = SelectQuoted
         THEN [ok |-> FALSE, df |-> NoFrame, error |-> <<"B", "i", "n", "d", "e", "r", " ", "E", "r", "r", "o", "r", ":", " ", "c", "o", "l", "u", "m", "n", " ", "\"", "a", "\"", " ", "n", "o", "t", " ", "f", "o", "u", "n", "d">>]
         ELSE [ok |-> FALSE, df |-> NoFrame, error |-> <<"P", "a", "r", "s", "e", "r", " ", "E", "r", "r", "o", "r", ":", " ", "s", "y", "n", "t", "a", "x", " ", "e", "r", "r", "o", "r">>]

\* a process_query whose error result still carries the query
process_query_keeps_sql(p, r, n) ==
    LET t == to_sql(p, r)
    IN IF ~t.ok THEN [sql |-> Unset, dataframe |-> NoFrame, error |-> t.error]
       ELSE LET x == execute_query(n, t.sql)
            IN IF x.ok THEN [sql |-> t.sql, dataframe |-> x.df, error |-> Unset]
               ELSE [sql |-> t.sql, dataframe |-> NoFrame, error |-> x.error]

\* process_query of query.py
process_query(p, r, n) ==
    LET t == to_sql(p, r)
    IN IF ~t.ok THEN [sql |-> Unset, dataframe |-> NoFrame, error |-> t.error]
       ELSE LET x == execute_query(n, t.sql)
            IN IF x.ok THEN [sql |-> t.sql, dataframe |-> x.df, error |-> Unset]
               ELSE [sql |-> Unset, dataframe |-> NoFrame, error |-> x.error]

\* replies assembled as <open fence><tag><separator><query><closing fence>
Opens == {<<>>, Fence}
Tags == {<<>>, <<"s", "q", "l">>, <<"S", "Q", "L">>, <<"p", "y", "t", "h", "o", "n">>, <<"s", "q", "l", "i", "t", "e">>}
Seps == {<<>>, <<"\n">>}
Queries == {SelectOne, CountQuery, SelectQuoted, <<" ", "S", "E", "L", "E", "C", "T", " ", "1", "\n">>}
Closes == {<<>>, Fence}

Shapes == [open : Opens, tag : Tags, sep : Seps, query : Queries, close : Closes]

ShapeText(f) == f.open \o f.tag \o f.sep \o f.query \o f.close

\* pieces of free-form replies
SqlPieces == {Fence, <<"s", "q", "l">>, <<"\n">>, <<" ">>, SelectOne}

FreeReplies == {Concat(ps) : ps \in UNION {[1..n -> SqlPieces] : n \in 0..MaxSqlPieces}}

TransportErrors == {<<"C", "o", "n", "n", "e", "c", "t", "i", "o", "n", " ", "e", "r", "r", "o", "r", ".">>}

InitSql ==
    /\ \/ /\ shape \in Shapes
          /\ reply = [kind |-> "content", text |-> ShapeText(shape)]
       \/ /\ shape = NoShape
          /\ \/ reply \in [kind : {"content"}, text : FreeReplies \cup {Unset}]
             \/ reply \in [kind : {"raise"}, text : TransportErrors]
    /\ rows \in 0..MaxRows
    /\ pc = "translate"
    /\ exitCode = -1
    /\ llm = ""
    /\ translated = NotRun
    /\ result = NoResult
    /\ GeoIdle
    /\ MainIdle
    /\ ConfigIdle

\* provider.to_sql(question, schema) is called on provider p
ToSql(p) ==
    /\ pc = "translate"
    /\ pc' = "translated"
    /\ llm' = p
    /\ translated' = to_sql(p, reply)
    /\ UNCHANGED <<reply, shape, rows, result, exitCode>>
    /\ UNCHANGED <<configVars, geoVars, mainVars>>

\* llm_to_sql(client, question, schema_info, model_name) is called
LlmToSql ==
    /\ pc = "translate"
    /\ pc' = "translated"
    /\ llm' = "main"
    /\ translated' = llm_to_sql(reply)
    /\ UNCHANGED <<reply, shape, rows, result, exitCode>>
    /\ UNCHANGED <<configVars, geoVars, mainVars>>

\* process_query(provider, question, schema, con, console) is called with
\* provider p; `translated` records what the provider's to_sql gave
ProcessQuery(p) ==
    /\ pc = "translate"
    /\ pc' = "answered"
    /\ llm' = p
    /\ translated' = to_sql(p, reply)
    /\ result' = process_query(p, reply, rows)
    /\ UNCHANGED <<reply, shape, rows, exitCode>>
    /\ UNCHANGED <<configVars, geoVars, mainVars>>

NextSql ==
    \/ \E p \in Providers : ToSql(p)
    \/ LlmToSql
    \/ \E p \in Providers : ProcessQuery(p)

SpecSql == InitSql /\ [][NextSql]_vars

-----------------------------------------------------------------------------
(* Question to geospatial operation: GeoLLMProvider and geoquery.process_query *)

UpperChars == <<"A", "B", "C", "D", "E", "F", "G", "H", "I", "J", "K", "L", "M", "N", "O", "P", "Q", "R", "S", "T", "U", "V", "W", "X", "Y", "Z">>

LowerChars == <<"a", "b", "c", "d", "e", "f", "g", "h", "i", "j", "k", "l", "m", "n", "o", "p", "q", "r", "s", "t", "u", "v", "w", "x", "y", "z">>

Digits == {"0", "1", "2", "3", "4", "5", "6", "7", "8", "9"}

\* the characters \w matches
WordChars == {UpperChars[i] : i \in 1..26} \cup {LowerChars[i] : i \in 1..26}
                \cup Digits \cup {"_"}

\* case folding of re.IGNORECASE
Lower(c) ==
    IF \E i \in 1..26 : UpperChars[i] = c
    THEN LowerChars[CHOOSE i \in 1..26 : UpperChars[i] = c]
    ELSE c

\* the literal lit matches s at position i, whatever the case
LitAt(s, i, lit) ==
    /\ i + Len(lit) - 1 <= Len(s)
    /\ \A k \in 1..Len(lit) : Lower(s[i + k - 1]) = Lower(lit[k])

\* length of the run of word characters / of whitespace of s from position i
RECURSIVE WordRun(_, _)
WordRun(s, i) == IF i <= Len(s) /\ s[i] \in WordChars THEN 1 + WordRun(s, i + 1) ELSE 0

RECURSIVE SpaceRun(_, _)
SpaceRun(s, i) == IF i <= Len(s) /\ s[i] \in Whitespace THEN 1 + SpaceRun(s, i + 1) ELSE 0

\* The three patterns of _clean_litellm_error, each of the shape
\* <pre>\w+<mid>\s* or <pre>\w+<mid>\s*-\s*
LitellmError == [pre |-> <<"l", "i", "t", "e", "l", "l", "m", ".">>, mid |-> <<"E", "r", "r", "o", "r", ":">>, dash |-> FALSE]

AnyError == [pre |-> <<>>, mid |-> <<"E", "r", "r", "o", "r", ":">>, dash |-> FALSE]

AnyException == [pre |-> <<>>, mid |-> <<"E", "x", "c", "e", "p", "t", "i", "o", "n">>, dash |-> TRUE]

\* position after a match of <mid>\s* (and -\s*) at position k of s, 0 when none
TailEnd(s, k, pat) ==
    IF ~LitAt(s, k, pat.mid) THEN 0
    ELSE LET a == k + Len(pat.mid)
             b == a + SpaceRun(s, a)
         IN IF ~pat.dash THEN b
            ELSE IF b <= Len(s) /\ s[b] = "-" THEN b + 1 + SpaceRun(s, b + 1)
            ELSE 0

\* position after the match of pat that starts at position i of s, 0 when none:
\* \w+ takes the longest run that lets the rest of the pattern match
MatchEnd(s, i, pat) ==
    IF ~LitAt(s, i, pat.pre) THEN 0
    ELSE LET j == i + Len(pat.pre)
             M == {m \in 1..WordRun(s, j) : TailEnd(s, j + m, pat) # 0}
         IN IF M = {} THEN 0
            ELSE TailEnd(s, j + (CHOOSE m \in M : \A o \in M : o <= m), pat)

\* re.sub(pat, "", s, flags=re.IGNORECASE), scanning from position i
RECURSIVE SubFrom(_, _, _)
SubFrom(pat, s, i) ==
    IF i > Len(s) THEN <<>>
    ELSE IF MatchEnd(s, i, pat) # 0 THEN SubFrom(pat, s, MatchEnd(s, i, pat))
    ELSE <<s[i]>> \o SubFrom(pat, s, i + 1)

re_sub(pat, s) == SubFrom(pat, s, 1)

\* a cleaner without the fallback to the original text
clean_litellm_error_no_fallback(error_message) ==
    Strip(re_sub(AnyException, re_sub(AnyError, re_sub(LitellmError, error_message))))

\* GeoLLMProvider._clean_litellm_error
clean_litellm_error(error_message) ==
    LET cleaned ==
          Strip(re_sub(AnyException, re_sub(AnyError, re_sub(LitellmError, error_message))))
    IN IF cleaned = <<>> THEN error_message ELSE cleaned

\* JSON documents of the model: objects with or without an "operation" member
\* (args: the members bbox, field, x, y, limit are there too), and values that
\* are no objects; kind "invalid" is a text (held by op) that is not JSON
VectorOperations ==
    {<<"d", "e", "s", "c", "r", "i", "b", "e">>, <<"l", "i", "s", "t", "_", "f", "e", "a", "t", "u", "r", "e", "s">>, <<"c", "o", "u", "n", "t", "_", "f", "e", "a", "t", "u", "r", "e", "s">>, <<"f", "i", "l", "t", "e", "r", "_", "f", "e", "a", "t", "u", "r", "e", "s">>, <<"s", "p", "a", "t", "i", "a", "l", "_", "f", "i", "l", "t", "e", "r">>,
     <<"s", "t", "a", "t", "i", "s", "t", "i", "c", "s">>}

RasterOperations == {<<"d", "e", "s", "c", "r", "i", "b", "e">>, <<"m", "e", "t", "a", "d", "a", "t", "a">>, <<"b", "a", "n", "d", "_", "s", "t", "a", "t", "i", "s", "t", "i", "c", "s">>, <<"p", "i", "x", "e", "l", "_", "v", "a", "l", "u", "e">>}

OperationNames == VectorOperations \cup RasterOperations \cup {<<"b", "u", "f", "f", "e", "r">>}

Documents ==
    [kind : {"object"}, op : OperationNames \cup {Unset}, args : BOOLEAN]
      \cup [kind : {"array", "number", "string", "null"}, op : {Unset}, args : {FALSE}]

NotJson ==
    [kind : {"invalid"}, op : {<<>>, <<"n", "o", "t", " ", "j", "s", "o", "n">>, <<"{">>, <<"{", "'", "o", "p", "e", "r", "a", "t", "i", "o", "n", "'", ":", " ", "'", "d", "e", "s", "c", "r", "i", "b", "e", "'", "}">>},
     args : {FALSE}]

NoDocument == [kind |-> "none", op |-> Unset, args |-> FALSE]

\* the text of a document
Render(d) ==
    CASE d.kind = "object" ->
           <<"{">> \o (IF d.op = Unset THEN <<>> ELSE <<"\"", "o", "p", "e", "r", "a", "t", "i", "o", "n", "\"", ":", " ", "\"">> \o d.op \o <<"\"">>)
               \o (IF d.args /\ d.op # Unset THEN <<",", " ">> ELSE <<>>)
               \o (IF d.args
                   THEN <<"\"", "b", "b", "o", "x", "\"", ":", " ", "[", "0", ",", " ", "0", ",", " ", "1", ",", " ", "1", "]", ",", " ", "\"", "f", "i", "e", "l", "d", "\"", ":", " ", "\"", "p", "o", "p", "\"", ",", " ", "\"", "x", "\"", ":", " ", "1", ",", " ", "\"", "y", "\"", ":", " ", "2", ",", " ", "\"", "l", "i", "m", "i", "t", "\"", ":", " ", "5">>
                   ELSE <<>>)
               \o <<"}">>
      [] d.kind = "array" -> <<"[", "]">>
      [] d.kind = "number" -> <<"1">>
      [] d.kind = "string" -> <<"\"", "d", "e", "s", "c", "r", "i", "b", "e", "\"">>
      [] d.kind = "null" -> <<"n", "u", "l", "l">>
      [] d.kind = "invalid" -> d.op

\* json.loads: the document whose text this is; any other text of the model is
\* not JSON and raises JSONDecodeError
json_loads(t) ==
    IF \E d \in Documents : Render(d) = t
    THEN [ok |-> TRUE, value |-> CHOOSE d \in Documents : Render(d) = t]
    ELSE [ok |-> FALSE, value |-> NoDocument]

FenceJson == <<Backtick, Backtick, Backtick, "j", "s", "o", "n">>

GeoReturned(d) == [ok |-> TRUE, error |-> Unset, operation |-> d]

GeoRaised(msg) == [ok |-> FALSE, error |-> msg, operation |-> NoDocument]

\* GeoLLMProvider._parse_json_response
parse_json_response(content) ==
    LET s1 == Strip(content)
        s2 == IF StartsWith(s1, FenceJson) THEN SubSeq(s1, 8, Len(s1))
              ELSE IF StartsWith(s1, Fence) THEN SubSeq(s1, 4, Len(s1))
              ELSE s1
        s3 == IF EndsWith(s2, Fence) THEN SubSeq(s2, 1, Len(s2) - 3) ELSE s2
        j == json_loads(Strip(s3))
    IN IF j.ok THEN GeoReturned(j.value)
       ELSE GeoRaised(<<"I", "n", "v", "a", "l", "i", "d", " ", "J", "S", "O", "N", " ", "r", "e", "s", "p", "o", "n", "s", "e", " ", "f", "r", "o", "m", " ", "L", "L", "M">>)

\* self.model
GeoModel == <<"g", "p", "t", "-", "4", "o">>

\* GeoLLMProvider._to_vector_operation
to_vector_operation(r) ==
    IF r.kind = "raise" THEN GeoRaised(clean_litellm_error(r.text))
    ELSE IF r.text = Unset THEN GeoRaised(NoContentReturnedFrom \o GeoModel)
    ELSE parse_json_response(r.text)

\* GeoLLMProvider._to_raster_operation
to_raster_operation(r) ==
    IF r.kind = "raise" THEN GeoRaised(clean_litellm_error(r.text))
    ELSE IF r.text = Unset THEN GeoRaised(NoContentReturnedFrom \o GeoModel)
    ELSE parse_json_response(r.text)

\* GeoLLMProvider.to_geo_operation
to_geo_operation(r, data_type) ==
    IF data_type = "vector" THEN to_vector_operation(r)
    ELSE IF data_type = "raster" THEN to_raster_operation(r)
    ELSE GeoRaised(<<"U", "n", "k", "n", "o", "w", "n", " ", "d", "a", "t", "a", " ", "t", "y", "p", "e", ":", " ">> \o <<data_type>>)

\* operation.get('operation', 'describe'): raises AttributeError when the parsed
\* value is no dict
GetOperation(d) ==
    IF d.kind # "object" THEN [ok |-> FALSE, op |-> Unset]
    ELSE [ok |-> TRUE, op |-> IF d.op = Unset THEN <<"d", "e", "s", "c", "r", "i", "b", "e">> ELSE d.op]

Executed(type) == [ok |-> TRUE, error |-> Unset, type |-> type]

Failed(msg) == [ok |-> FALSE, error |-> msg, type |-> ""]

NoAttributeGet == <<"o", "b", "j", "e", "c", "t", " ", "h", "a", "s", " ", "n", "o", " ", "a", "t", "t", "r", "i", "b", "u", "t", "e", " ", "'", "g", "e", "t", "'">>

\* _execute_vector_operation
execute_vector_operation(d) ==
    LET g == GetOperation(d)
        op_type == g.op
    IN IF ~g.ok THEN Failed(NoAttributeGet)
       ELSE IF op_type = <<"d", "e", "s", "c", "r", "i", "b", "e">> THEN Executed("description")
       ELSE IF op_type = <<"l", "i", "s", "t", "_", "f", "e", "a", "t", "u", "r", "e", "s">> THEN Executed("features")
       ELSE IF op_type = <<"c", "o", "u", "n", "t", "_", "f", "e", "a", "t", "u", "r", "e", "s">> THEN Executed("count")
       ELSE IF op_type = <<"f", "i", "l", "t", "e", "r", "_", "f", "e", "a", "t", "u", "r", "e", "s">> THEN Executed("features")
       ELSE IF op_type = <<"s", "p", "a", "t", "i", "a", "l", "_", "f", "i", "l", "t", "e", "r">>
            THEN IF ~d.args THEN Failed(<<"B", "o", "u", "n", "d", "i", "n", "g", " ", "b", "o", "x", " ", "r", "e", "q", "u", "i", "r", "e", "d", " ", "f", "o", "r", " ", "s", "p", "a", "t", "i", "a", "l", " ", "f", "i", "l", "t", "e", "r">>)
                 ELSE Executed("features")
       ELSE IF op_type = <<"s", "t", "a", "t", "i", "s", "t", "i", "c", "s">>
            THEN IF ~d.args THEN Failed(<<"F", "i", "e", "l", "d", " ", "n", "a", "m", "e", " ", "r", "e", "q", "u", "i", "r", "e", "d", " ", "f", "o", "r", " ", "s", "t", "a", "t", "i", "s", "t", "i", "c", "s">>)
                 ELSE Executed("statistics")
       ELSE Failed(<<"U", "n", "k", "n", "o", "w", "n", " ", "v", "e", "c", "t", "o", "r", " ", "o", "p", "e", "r", "a", "t", "i", "o", "n", ":", " ">> \o op_type)

\* _execute_raster_operation
execute_raster_operation(d) ==
    LET g == GetOperation(d)
        op_type == g.op
    IN IF ~g.ok THEN Failed(NoAttributeGet)
       ELSE IF op_type = <<"d", "e", "s", "c", "r", "i", "b", "e">> THEN Executed("description")
       ELSE IF op_type = <<"m", "e", "t", "a", "d", "a", "t", "a">> THEN Executed("metadata")
       ELSE IF op_type = <<"b", "a", "n", "d", "_", "s", "t", "a", "t", "i", "s", "t", "i", "c", "s">> THEN Executed("band_statistics")
       ELSE IF op_type = <<"p", "i", "x", "e", "l", "_", "v", "a", "l", "u", "e">>
            THEN IF ~d.args
                 THEN Failed(<<"X", " ", "a", "n", "d", " ", "Y", " ", "c", "o", "o", "r", "d", "i", "n", "a", "t", "e", "s", " ", "r", "e", "q", "u", "i", "r", "e", "d", " ", "f", "o", "r", " ", "p", "i", "x", "e", "l", " ", "v", "a", "l", "u", "e", " ", "q", "u", "e", "r", "y">>)
                 ELSE Executed("pixel_value")
       ELSE Failed(<<"U", "n", "k", "n", "o", "w", "n", " ", "r", "a", "s", "t", "e", "r", " ", "o", "p", "e", "r", "a", "t", "i", "o", "n", ":", " ">> \o op_type)

NoGeoResult == [operation |-> NoDocument, result |-> "", error |-> Unset]

\* process_query of geoquery.py
geo_process_query(r, data_type) ==
    LET t == to_geo_operation(r, data_type)
    IN IF ~t.ok THEN [operation |-> NoDocument, result |-> "", error |-> t.error]
       ELSE LET x == IF data_type = "vector" THEN execute_vector_operation(t.operation)
                     ELSE execute_raster_operation(t.operation)
            IN IF x.ok THEN [operation |-> t.operation, result |-> x.type, error |-> Unset]
               ELSE [operation |-> NoDocument, result |-> "", error |-> x.error]

\* vendor error texts assembled as <prefix>...<prefix><body>
ErrPrefixes ==
    {<<"l", "i", "t", "e", "l", "l", "m", ".", "A", "u", "t", "h", "e", "n", "t", "i", "c", "a", "t", "i", "o", "n", "E", "r", "r", "o", "r", ":", " ">>, <<"A", "u", "t", "h", "e", "n", "t", "i", "c", "a", "t", "i", "o", "n", "E", "r", "r", "o", "r", ":", " ">>, <<"O", "p", "e", "n", "A", "I", "E", "x", "c", "e", "p", "t", "i", "o", "n", " ", "-", " ">>,
     <<"R", "a", "t", "e", "L", "i", "m", "i", "t", "E", "r", "r", "o", "r", ":">>}

ErrBodies == {<<"I", "n", "v", "a", "l", "i", "d", " ", "k", "e", "y">>, <<"I", "n", "v", "a", "l", "i", "d", " ", "k", "e", "y", "\n">>, <<" ">>, <<>>}

ErrShapes ==
    [prefixes : UNION {[1..n -> ErrPrefixes] : n \in 0..MaxErrPrefixes}, body : ErrBodies]

ErrText(f) == Concat(f.prefixes) \o f.body

\* replies assembled as a document inside a wrapping
Wraps == {"bare", "json", "plain", "python", "truncated"}

WrapText(w, t) ==
    CASE w = "bare" -> t
      [] w = "json" -> FenceJson \o <<"\n">> \o t \o <<"\n">> \o Fence
      [] w = "plain" -> Fence \o <<"\n">> \o t \o <<"\n">> \o Fence
      [] w = "python" -> Fence \o <<"p", "y", "t", "h", "o", "n", "\n">> \o t \o <<"\n">> \o Fence
      [] w = "truncated" -> FenceJson \o <<"\n">> \o t

GeoShapes == [wrap : Wraps, doc : Documents \cup NotJson]

InitGeo ==
    /\ \/ /\ shape \in ErrShapes
          /\ reply = [kind |-> "raise", text |-> ErrText(shape)]
       \/ /\ shape \in GeoShapes
          /\ reply = [kind |-> "content", text |-> WrapText(shape.wrap, Render(shape.doc))]
       \/ /\ shape = NoShape
          /\ reply = [kind |-> "content", text |-> Unset]
    /\ dataType \in {"vector", "raster"}
    /\ pc = "translate"
    /\ exitCode = -1
    /\ llm = ""
    /\ translated = NotRun
    /\ rows = 0
    /\ result = NoGeoResult
    /\ FeaturesIdle
    /\ MainIdle
    /\ ConfigIdle

\* provider.to_geo_operation(question, data_info) is called
ToGeoOperation ==
    /\ pc = "translate"
    /\ pc' = "translated"
    /\ translated' = to_geo_operation(reply, dataType)
    /\ UNCHANGED <<reply, shape, llm, rows, result, dataType, exitCode>>
    /\ UNCHANGED <<configVars, mainVars, featureVars>>

\* geoquery.process_query(provider, question, geo_source, data_info, printer) is
\* called; `translated` records what to_geo_operation gave
GeoProcessQuery ==
    /\ pc = "translate"
    /\ pc' = "answered"
    /\ translated' = to_geo_operation(reply, dataType)
    /\ result' = geo_process_query(reply, dataType)
    /\ UNCHANGED <<reply, shape, llm, rows, dataType, exitCode>>
    /\ UNCHANGED <<configVars, mainVars, featureVars>>

NextGeo ==
    \/ ToGeoOperation
    \/ GeoProcessQuery

SpecGeo == InitGeo /\ [][NextGeo]_vars

-----------------------------------------------------------------------------
(* Vector queries: _execute_vector_operation and GeoDataSource.query_features *)

\* the features of layer 0 of the dataset, in reading order
FeatureLayer ==
    <<[id |-> 0, x |-> 1, y |-> 1, kind |-> "road"],
      [id |-> 1, x |-> 2, y |-> 5, kind |-> "path"],
      [id |-> 2, x |-> 5, y |-> 5, kind |-> "road"]>>

\* bounding boxes (min_x, min_y, max_x, max_y) an operation may carry
Boxes ==
    {NoBox} \cup [given : {TRUE}, rect : {<<0, 0, 3, 3>>, <<4, 4, 6, 6>>, <<0, 0, 6, 6>>}]

\* SQL texts an operation may carry: SELECT * FROM layer WHERE kind = '<kind>'
Sqls == {NoSql} \cup [given : {TRUE}, kind : {"road", "path"}]

\* the default of operation.get('limit', 10)
DefaultLimit == 10

\* no "limit" member in the operation
NoLimit == -1

\* the operations of _execute_vector_operation that read features
FeatureOperations ==
    [operation : {"list_features", "count_features", "filter_features",
                  "spatial_filter", "statistics"},
     sql : Sqls, bbox : Boxes, limit : {NoLimit, 0, 1, 2}]

\* the feature lies in the rectangle of the spatial filter
Inside(f, box) ==
    ~box.given \/ (/\ box.rect[1] <= f.x /\ f.x <= box.rect[3]
                   /\ box.rect[2] <= f.y /\ f.y <= box.rect[4])

\* `if limit and count >= limit: break`: the first limit features, all of them
\* when limit is None or 0
Limited(fs, limit) == IF limit = 0 \/ Len(fs) <= limit THEN fs ELSE SubSeq(fs, 1, limit)

\* query_features on a vector dataset whose layer 0 carries the spatial filter
\* `filter`: a bbox replaces the filter of the layer, no bbox leaves it as it
\* is; with an SQL text the features are read from the result layer of
\* ExecuteSQL, else from layer 0 under its spatial filter
query_features(filter, sql, bbox, limit) ==
    LET set == IF bbox.given THEN bbox ELSE filter
        read == IF sql.given
                THEN SelectSeq(FeatureLayer, LAMBDA f : f.kind = sql.kind)
                ELSE SelectSeq(FeatureLayer, LAMBDA f : Inside(f, set))
    IN [features |-> [ok |-> TRUE,
                      ids |-> [i \in 1..Len(Limited(read, limit)) |-> Limited(read, limit)[i].id]],
        filter |-> set]

\* the arguments _execute_vector_operation passes to query_features
QueryArguments(op) ==
    LET limit == IF op.limit = NoLimit THEN DefaultLimit ELSE op.limit
    IN CASE op.operation = "list_features" ->
              [sql |-> op.sql, bbox |-> op.bbox, limit |-> limit]
         [] op.operation = "count_features" ->
              [sql |-> op.sql, bbox |-> op.bbox, limit |-> 0]
         [] op.operation = "filter_features" ->
              [sql |-> op.sql, bbox |-> op.bbox, limit |-> limit]
         [] op.operation = "spatial_filter" ->
              [sql |-> NoSql, bbox |-> op.bbox, limit |-> limit]
         [] op.operation = "statistics" ->
              [sql |-> op.sql, bbox |-> NoBox, limit |-> 0]

InitFeatures ==
    /\ dataType = "vector"
    /\ FeaturesIdle
    /\ pc = "ask"
    /\ exitCode = -1
    /\ SqlIdle
    /\ MainIdle
    /\ ConfigIdle

\* one question of the loop whose operation reads features: spatial_filter
\* without a bbox raises before the dataset is touched; ExecuteSQL reads
\* layer 0 and may leave its spatial filter in place or reset it
VectorQuery(op) ==
    /\ pc = "ask"
    /\ IF op.operation = "spatial_filter" /\ ~op.bbox.given
       THEN /\ call' = NoCall
            /\ features' = NoFeatures
            /\ UNCHANGED layerFilter
       ELSE LET a == QueryArguments(op)
                r == query_features(layerFilter, a.sql, a.bbox, a.limit)
            IN /\ call' = a
               /\ features' = r.features
               /\ layerFilter' \in {r.filter} \cup (IF a.sql.given THEN {NoBox} ELSE {})
    /\ UNCHANGED <<dataType, pc, exitCode>>
    /\ UNCHANGED <<configVars, sqlVars, mainVars>>

NextFeatures == \E op \in FeatureOperations : VectorQuery(op)

SpecFeatures == InitFeatures /\ [][NextFeatures]_vars

-----------------------------------------------------------------------------
(* The command-line runs: main of datatalk/main.py and of geodatatalk/main.py *)

\* `except Exception` of process_query: the classes it catches
except_BaseException(exc) == exc \in {"Exception", "KeyboardInterrupt"}

except_Exception(exc) == exc = "Exception"

\* what a query may raise and where: nothing, or an error (an Exception) or a
\* KeyboardInterrupt while the LLM call is waited for or the query is executed
QueryRaises ==
    {[at |-> "none", exc |-> "none"]}
      \cup [at : {"translate", "execute"}, exc : {"Exception", "KeyboardInterrupt"}]

\* str.join
RECURSIVE Join(_, _)
Join(sep, xs) ==
    IF xs = <<>> THEN <<>>
    ELSE IF Len(xs) = 1 THEN xs[1]
    ELSE xs[1] \o sep \o Join(sep, Tail(xs))

\* get_schema: "name (type), name (type), ..." of the table events
get_schema(t) == Join(<<",", " ">>, [i \in 1..Len(t) |-> t[i].name \o <<" ", "(">> \o t[i].type \o <<")">>])

\* tables a data file may load as
Tables ==
    {<<[name |-> <<"i", "d">>, type |-> <<"B", "I", "G", "I", "N", "T">>]>>,
     <<[name |-> <<"i", "d">>, type |-> <<"B", "I", "G", "I", "N", "T">>], [name |-> <<"c", "i", "t", "y">>, type |-> <<"V", "A", "R", "C", "H", "A", "R">>]>>}

ExtraColumn == [name |-> <<"e", "x", "t", "r", "a">>, type |-> <<"I", "N", "T", "E", "G", "E", "R">>]

\* the statement the LLM wrote: a SELECT, or an ALTER TABLE events ADD COLUMN
Statements(t) ==
    {"select"} \cup (IF \E i \in 1..Len(t) : t[i] = ExtraColumn THEN {} ELSE {"alter"})

\* con.execute(sql) on the table
Apply(stmt, t) == IF stmt = "alter" THEN Append(t, ExtraColumn) ELSE t

\* a run that reads the schema again for each query
SchemaArgumentFresh(info, t) == get_schema(t)

\* the schema argument of llm_to_sql in process_query: main's schema_info
SchemaArgument(info, t) == info

\* EOFError raised by Prompt.ask
EndOfInput == <<"^D">>

QuitWords == {<<"q", "u", "i", "t">>, <<"e", "x", "i", "t">>, <<"q">>, <<"s", "t", "o", "p">>, <<"b", "y", "e">>, <<"g", "o", "o", "d", "b", "y", "e">>}

\* str.lower
LowerText(s) == [i \in 1..Len(s) |-> Lower(s[i])]

\* a loop that compares the answer itself with the words
is_quit_case_sensitive(q) == q \in QuitWords

\* the test that ends the loop: q.lower() in ["quit", "exit", ...]
is_quit(q) == LowerText(q) \in QuitWords

\* str.isdigit and int()
IsDigit(s) == s # <<>> /\ \A i \in 1..Len(s) : s[i] \in Digits

DigitChars == <<"0", "1", "2", "3", "4", "5", "6", "7", "8", "9">>

RECURSIVE IntOf(_)
IntOf(s) ==
    IF s = <<>> THEN 0
    ELSE 10 * IntOf(SubSeq(s, 1, Len(s) - 1))
           + ((CHOOSE n \in 1..10 : DigitChars[n] = s[Len(s)]) - 1)

\* what the user may type at the question prompt
Questions == {EndOfInput, <<"q", "u", "i", "t">>, <<"E", "x", "i", "t">>, <<"G", "O", "O", "D", "B", "Y", "E">>, <<" ", "q", "u", "i", "t">>, <<>>, <<" ">>, <<"1">>, <<"9">>, <<"h", "o", "w", " ", "m", "a", "n", "y", " ", "r", "o", "w", "s", "?">>}

\* the final component of a path
RECURSIVE PathName(_)
PathName(path) ==
    IF Contains(path, <<"/">>)
    THEN PathName(SubSeq(path, Find(path, <<"/">>) + 1, Len(path)))
    ELSE path

\* pathlib's suffix: the text from the last dot of the final component, empty
\* when there is no dot, when the only dot is the first character and when the
\* dot is the last character
Suffix(path) ==
    LET name == PathName(path)
        dots == {i \in 1..Len(name) : name[i] = "."}
        last == CHOOSE i \in dots : \A j \in dots : j <= i
    IN IF dots = {} THEN <<>>
       ELSE IF last = 1 \/ last = Len(name) THEN <<>>
       ELSE SubSeq(name, last, Len(name))

\* a loader that decides by the content of the file and takes any name
load_data_any_extension(path) == "loaded"

\* load_data_to_duckdb of main.py on a readable file: the table is created for
\* .parquet and .csv, any other extension raises the ValueError
load_data_to_duckdb(path) ==
    LET file_extension == LowerText(Suffix(path))
    IN IF file_extension = <<".", "p", "a", "r", "q", "u", "e", "t">> THEN "loaded"
       ELSE IF file_extension = <<".", "c", "s", "v">> THEN "loaded"
       ELSE "unsupported"

\* load_data of database.py on a readable file
load_data(path) ==
    LET file_extension == LowerText(Suffix(path))
    IN IF file_extension = <<".", "p", "a", "r", "q", "u", "e", "t">> THEN "loaded"
       ELSE IF file_extension = <<".", "c", "s", "v">> THEN "loaded"
       ELSE IF file_extension \in {<<".", "x", "l", "s", "x">>, <<".", "x", "l", "s">>} THEN "loaded"
       ELSE "unsupported"

\* the data files named on the command line
Paths == {<<"d", ".", "c", "s", "v">>, <<"D", ".", "C", "S", "V">>, <<"d", ".", "p", "a", "r", "q", "u", "e", "t">>, <<"d", ".", "x", "l", "s", "x">>, <<"d", ".", "x", "l", "s">>, <<"d", ".", "t", "x", "t">>, <<"d">>, <<"/", "a", ".", "c", "s", "v", "/", "d">>, <<"d", ".", "c", "s", "v", ".", "b", "a", "k">>}

\* the values of -p/--prompt: not given, empty, a question
Prompts == {Unset, <<>>, <<"h", "o", "w", " ", "m", "a", "n", "y", " ", "r", "o", "w", "s", "?">>}

\* the arguments of a run of each program
ArgsOf(a) ==
    IF a = "datatalk"
    THEN [file : Paths \cup {Unset}, prompt : Prompts, json : {FALSE},
          config_info : BOOLEAN, reset_config : BOOLEAN]
    ELSE [file : {Unset, <<"r", "o", "a", "d", "s", ".", "s", "h", "p">>}, prompt : Prompts, json : BOOLEAN,
          config_info : {FALSE}, reset_config : {FALSE}]

\* `if args.prompt:` of main: the branch that is taken
Mode(prompt) == IF Truthy(prompt) THEN "oneshot" ELSE "interactive"

\* GeoPrinter(console, quiet=args.prompt is not None); datatalk's main prints to
\* the console itself
Quiet(a, prompt) == a = "geodatatalk" /\ prompt # Unset

\* Printer.decorative and Printer.result: the kinds of messages that reach the
\* console
decorative(quiet, kinds) == IF quiet THEN {} ELSE kinds

printer_result(kinds) == kinds

\* a reset that empties the file and leaves it in place
reset_config_truncate(d) ==
    [disk |-> save_config(EmptyConfig),
     message |-> IF d # NoFile THEN "deleted" ELSE "nothing to delete"]

\* --reset-config: the file is unlinked when it exists
reset_config(d) ==
    IF d # NoFile
    THEN [disk |-> NoFile, message |-> "deleted"]
    ELSE [disk |-> d, message |-> "nothing to delete"]

\* the configuration file of the e2e test
StoredFile == save_config([EmptyConfig EXCEPT !["OPENAI_API_KEY"] = <<"t", "e", "s", "t", "-", "k", "e", "y">>])

ErrorText == <<"U", "n", "k", "n", "o", "w", "n", " ", "o", "p", "e", "r", "a", "t", "i", "o", "n">>

\* what process_query of geoquery.py returns
geo_result(raise) ==
    IF raise.exc = "none"
    THEN [operation |-> <<"o", "p", "e", "r", "a", "t", "i", "o", "n">>, result |-> <<"r", "e", "s", "u", "l", "t">>, error |-> Unset]
    ELSE [operation |-> Unset, result |-> Unset, error |-> ErrorText]

\* output_json: the document printed
output_json(res, operation) == [operation |-> operation, result |-> res, error |-> Unset]

LoadFailed == [at |-> "load", exc |-> "Exception"]

InitMain ==
    /\ app \in {"datatalk", "geodatatalk"}
    /\ args \in ArgsOf(app)
    /\ mode = Mode(args.prompt)
    /\ disk \in IF app = "datatalk" THEN {NoFile, StoredFile} ELSE {NoFile}
    /\ pc = "args"
    /\ exitCode = -1
    /\ table = <<>>
    /\ schemaInfo = Unset
    /\ passed = <<>>
    /\ computed = 0
    /\ printed = {}
    /\ handler = ""
    /\ asked = 0
    /\ outcome = NoOutcome
    /\ samples = 0
    /\ question = NoInput
    /\ jsonOut = <<>>
    /\ requests = 0
    /\ SqlIdle
    /\ GeoIdle
    /\ ConfigRest

\* main up to the set-up of the provider.  datatalk: the logo, --config-info,
\* --reset-config, the test for the file argument.  geodatatalk: --json without
\* a prompt is an argument error, the logo goes through the printer, LLM_MODEL
\* and the file argument are required
ParseArgs(model_set) ==
    /\ pc = "args"
    /\ IF app = "datatalk"
       THEN IF args.config_info
            THEN /\ printed' = printed \cup {"banner", "config info"}
                 /\ Exit(0)
                 /\ UNCHANGED disk
            ELSE IF args.reset_config
            THEN /\ disk' = reset_config(disk).disk
                 /\ printed' = printed \cup {"banner", reset_config(disk).message}
                 /\ Exit(0)
            ELSE IF args.file = Unset
            THEN /\ printed' = printed \cup {"banner", "error"}
                 /\ Exit(1)
                 /\ UNCHANGED disk
            ELSE /\ printed' = printed \cup {"banner"}
                 /\ pc' = "setup"
                 /\ UNCHANGED <<disk, exitCode>>
       ELSE /\ UNCHANGED disk
            /\ IF args.json /\ ~Truthy(args.prompt)
               THEN /\ printed' = printed \cup {"usage"}
                    /\ Exit(2)
               ELSE IF ~model_set
               THEN /\ printed' = printed \cup decorative(Quiet(app, args.prompt), {"banner"})
                                    \cup printer_result({"configuration help"})
                    /\ Exit(1)
               ELSE IF args.file = Unset
               THEN /\ printed' = printed \cup decorative(Quiet(app, args.prompt), {"banner"})
                                    \cup printer_result({"file help"})
                    /\ Exit(1)
               ELSE /\ printed' = printed
                                    \cup decorative(Quiet(app, args.prompt), {"banner", "version"})
                    /\ pc' = "load"
                    /\ UNCHANGED exitCode
    /\ UNCHANGED <<app, args, mode, table, schemaInfo, passed, computed, handler, asked,
                   outcome, samples, question, jsonOut, requests>>
    /\ UNCHANGED <<configRestVars, sqlVars, geoVars>>

\* the provider and its keys are settled (detect_provider, setup_ai_client)
SetupDone ==
    /\ pc = "setup"
    /\ pc' = "load"
    /\ UNCHANGED <<mainVars, exitCode>>
    /\ UNCHANGED <<configVars, sqlVars, geoVars>>

\* the data file is loaded and described: load_data_to_duckdb, get_schema and
\* show_basic_stats in datatalk, GeoDataSource(path) and print_dataset_info in
\* geodatatalk; a file that cannot be loaded ends the run with an error.  In
\* interactive mode the introduction of the loop follows
LoadData(ok) ==
    /\ pc = "load"
    /\ IF app = "datatalk"
       THEN IF load_data_to_duckdb(args.file) = "unsupported" \/ ~ok
            THEN /\ printed' = printed \cup {"error"}
                      \cup (IF load_data_to_duckdb(args.file) = "unsupported"
                            THEN {"Unsupported file format"} ELSE {})
                 /\ outcome' = LoadFailed
                 /\ Exit(1)
                 /\ UNCHANGED <<table, schemaInfo, computed>>
            ELSE /\ table' \in Tables
                 /\ schemaInfo' = get_schema(table')
                 /\ computed' = computed + 1
                 /\ printed' = printed \cup {"loaded", "stats"}
                      \cup (IF mode = "oneshot" THEN {} ELSE {"introduction"})
                 /\ pc' = IF mode = "oneshot" THEN "oneshot" ELSE "suggest"
                 /\ UNCHANGED <<outcome, exitCode>>
       ELSE /\ UNCHANGED <<table, schemaInfo, computed>>
            /\ IF ~ok
               THEN /\ printed' = printed
                         \cup decorative(Quiet(app, args.prompt), {"loading"})
                         \cup printer_result({"error"})
                    /\ outcome' = LoadFailed
                    /\ Exit(1)
               ELSE /\ printed' = printed
                         \cup decorative(Quiet(app, args.prompt), {"loading", "loaded", "stats"})
                         \cup (IF mode = "oneshot" THEN {}
                               ELSE printer_result({"introduction"}))
                    /\ pc' = IF mode = "oneshot" THEN "oneshot" ELSE "ask"
                    /\ UNCHANGED <<outcome, exitCode>>
    /\ UNCHANGED <<app, args, mode, passed, handler, asked, samples, question, jsonOut,
                   requests>>
    /\ UNCHANGED <<configVars, sqlVars, geoVars>>

\* the progress lines of process_query: console.print in datatalk,
\* printer.decorative in geodatatalk
Progress == IF app = "datatalk" THEN {"progress"}
            ELSE decorative(Quiet(app, args.prompt), {"progress"})

\* the effects of one process_query call that are the same in both modes: the
\* schema passed to the translation, the requests sent to the LLM (the
\* translation and, in datatalk, the summary of a result that has rows), the
\* statement executed
RunQuery(raise, stmt) ==
    /\ outcome' = raise
    /\ asked' = asked + 1
    /\ passed' = IF app = "datatalk"
                 THEN Append(passed, [schema |-> SchemaArgument(schemaInfo, table),
                                      columns |-> Len(table)])
                 ELSE passed
    /\ requests' = requests + 1
                     + (IF app = "datatalk" /\ raise.exc = "none" /\ stmt = "select"
                        THEN 1 ELSE 0)
    /\ table' = IF app = "datatalk" /\ raise.exc = "none" THEN Apply(stmt, table)
                ELSE table
    /\ UNCHANGED <<app, args, mode, schemaInfo, computed, samples, question>>
    /\ UNCHANGED <<configVars, sqlVars, geoVars>>

\* the KeyboardInterrupt handler of main: farewell and exit code 0
Farewell ==
    /\ printed' = printed \cup {"farewell"}
    /\ handler' = "outermost"
    /\ Exit(0)

\* -p/--prompt: one process_query call, then main returns; datatalk prints the
\* error inside process_query and returns, geodatatalk tests result["error"],
\* prints the error or, with --json, the document of output_json, and exits
\* with code 1
OneShot(raise, stmt) ==
    /\ pc = "oneshot"
    /\ stmt \in Statements(table)
    /\ RunQuery(raise, stmt)
    /\ IF raise.exc = "none"
       THEN /\ IF args.json
               THEN /\ jsonOut' = Append(jsonOut, output_json(geo_result(raise).result,
                                                              geo_result(raise).operation))
                    /\ printed' = printed \cup Progress
               ELSE /\ printed' = printed \cup Progress \cup printer_result({"results"})
                    /\ UNCHANGED jsonOut
            /\ Exit(0)
            /\ UNCHANGED handler
       ELSE IF except_Exception(raise.exc)
       THEN /\ IF args.json
               THEN /\ jsonOut' = Append(jsonOut, output_json(geo_result(raise).result,
                                                              geo_result(raise).operation))
                    /\ printed' = printed \cup Progress
               ELSE /\ printed' = printed \cup Progress \cup printer_result({"error"})
                    /\ UNCHANGED jsonOut
            /\ Exit(IF app = "datatalk" THEN 0 ELSE 1)
            /\ UNCHANGED handler
       ELSE /\ Farewell
            /\ UNCHANGED jsonOut

\* refresh_suggestions of datatalk: generate_sample_queries asks the LLM and
\* falls back to built-in questions when that fails
RefreshSuggestions(n) ==
    /\ pc = "suggest"
    /\ pc' = "ask"
    /\ samples' = n
    /\ requests' = requests + 1
    /\ printed' = printed \cup (IF n > 0 THEN {"suggestions"} ELSE {})
    /\ outcome' = NoOutcome
    /\ UNCHANGED <<app, args, mode, table, schemaInfo, passed, computed, handler,
                   asked, question, jsonOut, exitCode>>
    /\ UNCHANGED <<configVars, sqlVars, geoVars>>

\* the user answers the question prompt of the interactive loop
Ask(q) ==
    /\ pc = "ask"
    /\ question' = q
    /\ outcome' = NoOutcome
    /\ IF q = EndOfInput \/ is_quit(q)
       THEN /\ printed' = printed \cup printer_result({"farewell"})
            /\ Exit(0)
       ELSE IF Strip(q) = <<>>
       THEN UNCHANGED <<printed, pc, exitCode>>
       ELSE IF app = "datatalk" /\ IsDigit(Strip(q))
                 /\ ~(1 <= IntOf(Strip(q)) /\ IntOf(Strip(q)) <= samples)
       THEN /\ printed' = printed \cup {"choose"}
            /\ UNCHANGED <<pc, exitCode>>
       ELSE /\ asked < MaxQuestions
            /\ pc' = "query"
            /\ UNCHANGED <<printed, exitCode>>
    /\ UNCHANGED <<app, args, mode, table, schemaInfo, passed, computed, handler, asked,
                   samples, jsonOut, requests>>
    /\ UNCHANGED <<configVars, sqlVars, geoVars>>

\* process_query in the interactive loop: an error is printed and the loop
\* goes on
Query(raise, stmt) ==
    /\ pc = "query"
    /\ stmt \in Statements(table)
    /\ RunQuery(raise, stmt)
    /\ UNCHANGED jsonOut
    /\ IF raise.exc = "none" \/ except_Exception(raise.exc)
       THEN /\ printed' = printed \cup Progress
                 \cup printer_result({IF raise.exc = "none" THEN "results" ELSE "error"})
            /\ pc' = IF app = "datatalk" THEN "suggest" ELSE "ask"
            /\ UNCHANGED <<handler, exitCode>>
       ELSE Farewell

\* Ctrl-C outside a query: at a set-up prompt (handled where the prompt is
\* asked), while the data is loaded, while suggestions are generated, at the
\* question prompt
Interrupt ==
    /\ pc \in {"setup", "load", "suggest", "ask"}
    /\ outcome' = [at |-> pc, exc |-> "KeyboardInterrupt"]
    /\ printed' = printed \cup {"farewell"}
    /\ handler' = IF pc = "setup" THEN "setup" ELSE "outermost"
    /\ Exit(0)
    /\ UNCHANGED <<app, args, mode, table, schemaInfo, passed, computed, asked, samples,
                   question, jsonOut, requests>>
    /\ UNCHANGED <<configVars, sqlVars, geoVars>>

NextMain ==
    \/ \E model_set \in BOOLEAN : ParseArgs(model_set)
    \/ SetupDone
    \/ \E ok \in BOOLEAN : LoadData(ok)
    \/ \E raise \in QueryRaises, stmt \in {"select", "alter"} : OneShot(raise, stmt)
    \/ \E n \in {0, 5} : RefreshSuggestions(n)
    \/ \E q \in Questions : Ask(q)
    \/ \E raise \in QueryRaises, stmt \in {"select", "alter"} : Query(raise, stmt)
    \/ Interrupt

SpecMain == InitMain /\ [][NextMain]_vars

-----------------------------------------------------------------------------
(* Properties of the configuration, of provider detection and of URL parsing *)

PriorityOrder == <<"ollama", "anthropic", "gemini", "openai", "azure">>

\* a provider is available when the keys detect_llm_provider looks at for it are
\* present in the environment or in the configuration loaded at start
Available(p) == Has(p, env, loaded)

AvailableProviders == {p \in Providers : Available(p)}

FirstAvailable ==
    PriorityOrder[CHOOSE i \in 1..5 :
                    /\ Available(PriorityOrder[i])
                    /\ \A j \in 1..(i - 1) : ~Available(PriorityOrder[j])]

\* C1: whenever at least one provider is available, detect_llm_provider returns the
\* first available provider in the order ollama > anthropic > gemini > openai >
\* azure, and the menu is never shown
C1_HighestPriority ==
    (pc # "start" /\ AvailableProviders # {}) =>
        /\ provider = FirstAvailable
        /\ auto
        /\ menuShown = 0

\* C1 witness: gemini was returned while openai, of lower priority, was available too
C1_Witness ==
    /\ pc = "resolve"
    /\ provider = "gemini"
    /\ Available("openai")
    /\ menuShown = 0

\* the value get_env_var(k) has to return, envHolds telling whether the
\* environment counts as holding a value for k: the environment's, else the one
\* the configuration held, else the prompt's answer
C2_Expected(k, envHolds) ==
    IF envHolds THEN env[k]
    ELSE IF loaded[k] # Unset THEN loaded[k]
    ELSE answered[k]

\* C2 as stated: an environment variable that is set (to any text, the empty text
\* included) is returned; the configuration is used only when it is not set, and
\* the user is asked only when the key is in neither
C2_Original ==
    /\ \A k \in Keys : got[k] # Unset => got[k] = C2_Expected(k, env[k] # Unset)
    /\ \A i \in DOMAIN prompts : env[prompts[i]] = Unset /\ loaded[prompts[i]] = Unset

\* C2 amended: the environment value is returned when it is set to a non-empty
\* text; otherwise (not set, or set to the empty text) the value stored in the
\* configuration is returned; the user is asked only when neither holds
C2_EnvThenConfig ==
    /\ \A k \in Keys : got[k] # Unset => got[k] = C2_Expected(k, Truthy(env[k]))
    /\ \A i \in DOMAIN prompts : ~Truthy(env[prompts[i]]) /\ loaded[prompts[i]] = Unset

\* C2 witness: both sources held a value for a key and the environment's was returned
C2_Witness ==
    \E k \in Keys :
        /\ Truthy(env[k])
        /\ Truthy(loaded[k])
        /\ env[k] # loaded[k]
        /\ got[k] = env[k]

\* C3: once a prompt for a key has been answered, a get_env_var call for that key
\* returns the answer without prompting, in every later state of the run; no key
\* is prompted for twice
C3_PromptedOnce ==
    /\ \A k \in Keys :
         answered[k] # Unset =>
             get_env_var(k, env, config) = [kind |-> "return", value |-> answered[k]]
    /\ \A i, j \in DOMAIN prompts : i # j => prompts[i] # prompts[j]

\* C3 witness: the provider's keys were resolved a second time after both had been
\* prompted for, and the second resolution returned the answers
C3_Witness ==
    /\ pc = "ready"
    /\ later = 1
    /\ Len(prompts) = 2
    /\ \A i \in DOMAIN prompts : got[prompts[i]] = answered[prompts[i]]

\* C4: the file holds the in-memory mapping (an absent file standing for the empty
\* mapping); the mapping differs from the loaded one only in keys that were absent
\* and whose prompt was answered; there is one write per answered prompt and none
\* otherwise
C4_FileIsMapping ==
    /\ load_config(disk) = config
    /\ \A k \in Keys :
         config[k] # loaded[k] =>
             /\ loaded[k] = Unset
             /\ config[k] = answered[k]
             /\ \E i \in DOMAIN prompts : prompts[i] = k
    /\ writes = Cardinality({k \in Keys : answered[k] # Unset})
    /\ writes = 0 => config = loaded

\* C4 witness: a prompted key was added and written while a key loaded with an
\* empty value was kept as it was
C4_Witness ==
    /\ writes = 1
    /\ \E k \in Keys : loaded[k] = <<>> /\ disk.content[k] = <<>>
    /\ \E k \in Keys : loaded[k] = Unset /\ disk.content[k] = <<"p">>

\* C5: a step that consumes a cancel (keyboard interrupt or end of input), at a
\* configuration-value prompt or at the menu, ends the process with exit code 0
\* and leaves the mapping and the file as they were
C5_CancelExitsCleanly ==
    [][(pc \in {"prompt", "menu"} /\ input' = Cancel) =>
          /\ pc' = "exited"
          /\ exitCode' = 0
          /\ config' = config
          /\ disk' = disk]_vars

\* C5 witness: a value prompt was cancelled after an earlier prompt had been saved
C5_Witness ==
    /\ input = Cancel
    /\ pc = "exited"
    /\ asking # ""
    /\ writes = 1

\* the provider the claim gives for each menu answer
C6_Choice(raw) ==
    CASE raw \in {<<>>, <<"1">>, <<"o", "p", "e", "n", "a", "i">>} -> "openai"
      [] raw \in {<<"2">>, <<"a", "z", "u", "r", "e">>} -> "azure"
      [] raw \in {<<"3">>, <<"a", "n", "t", "h", "r", "o", "p", "i", "c">>} -> "anthropic"
      [] raw \in {<<"4">>, <<"o", "l", "l", "a", "m", "a">>} -> "ollama"
      [] raw \in {<<"5">>, <<"g", "e", "m", "i", "n", "i">>} -> "gemini"
      [] OTHER -> ""

\* C6: at the menu a valid choice returns the provider of that choice at once, any
\* other answer (such as "9") returns nothing and the menu is asked again; the
\* provider returned is always one of the five
C6_MenuChoice ==
    [][(pc = "menu" /\ input' # Cancel) =>
          IF C6_Choice(input') # ""
          THEN /\ provider' = C6_Choice(input')
               /\ provider' \in Providers
               /\ pc' = "resolve"
          ELSE /\ pc' = "menu"
               /\ provider' = ""
               /\ menuShown' = menuShown + 1]_vars

\* C6 witness: "9" was refused, the menu was asked again and "4" returned ollama
C6_Witness ==
    /\ menuShown = 2
    /\ input = <<"4">>
    /\ provider = "ollama"
    /\ ~auto

PresentAtStart(k) == Truthy(env[k]) \/ loaded[k] # Unset

KeysOf(p) == {ProviderKeys(p)[i] : i \in DOMAIN ProviderKeys(p)}

\* C7 as stated: a provider selected without the menu has all the keys
\* create_provider resolves for it, so no prompt is opened
C7_Original ==
    auto => /\ \A k \in KeysOf(provider) : PresentAtStart(k)
            /\ prompts = <<>>

\* C7 amended: a provider selected without the menu has at least one of its keys
\* present with a non-empty value in the environment or the configuration, and
\* create_provider prompts for at most the other key
C7_SomeKeyPresent ==
    auto => /\ \E k \in KeysOf(provider) : Truthy(env[k]) \/ Truthy(loaded[k])
            /\ Len(prompts) <= 1
            /\ \A i \in DOMAIN prompts : prompts[i] \in KeysOf(provider)

\* C7 witness: the provider was selected without the menu and its client was built
\* after one prompt
C7_Witness ==
    /\ auto
    /\ pc = "ready"
    /\ Len(prompts) = 1

\* C8: with two or more providers available the warning names the provider that
\* is returned and the run goes on; with fewer no warning is printed
C8_Warning ==
    pc # "start" =>
        IF Cardinality(AvailableProviders) >= 2
        THEN /\ warning = FirstAvailable
             /\ provider = warning
             /\ auto
        ELSE warning = ""

\* C8 witness: openai and azure were both available, the warning named openai and
\* the client was built
C8_Witness ==
    /\ warning = "openai"
    /\ AvailableProviders = {"openai", "azure"}
    /\ pc = "ready"
    /\ client.type = "openai"

ExampleUrl == <<"h", "t", "t", "p", "s", ":", "/", "/", "x", ".", "c", "o", "m", "/", "o", "p", "e", "n", "a", "i", "/", "d", "e", "p", "l", "o", "y", "m", "e", "n", "t", "s", "/", "g", "p", "t", "-", "4", "o", "/", "c", "h", "a", "t", "/", "c", "o", "m", "p", "l", "e", "t", "i", "o", "n", "s", "?", "a", "p", "i", "-", "v", "e", "r", "s", "i", "o", "n", "=", "2", "0", "2", "4", "-", "0", "1", "-", "0", "1">>

\* C9: for a URL assembled as <base>/openai/deployments/<name>/<rest>?api-version=
\* <v><more>, where <name> holds no "/", <v> no "&", <more> is empty or starts
\* with "&", and the two markers first occur where the form shows them, the result
\* is (<base> + "/", <name>, <v>)
C9_ParsesForm ==
    (pc = "parsed" /\ form # NoForm) =>
        /\ parsed.ok
        /\ parsed.endpoint = form.base \o <<"/">>
        /\ parsed.deployment = form.name
        /\ parsed.version = form.v

\* C9 witness: the example URL gave ("https://x.com/", "gpt-4o", "2024-01-01")
C9_Witness ==
    /\ pc = "parsed"
    /\ url = ExampleUrl
    /\ parsed.endpoint = <<"h", "t", "t", "p", "s", ":", "/", "/", "x", ".", "c", "o", "m", "/">>
    /\ parsed.deployment = <<"g", "p", "t", "-", "4", "o">>
    /\ parsed.version = <<"2", "0", "2", "4", "-", "0", "1", "-", "0", "1">>

\* C10 as stated: the URL is accepted exactly when it contains "/deployments/" and
\* "api-version="
C10_Original ==
    pc = "parsed" =>
        (parsed.ok <=> (Contains(url, DeploymentsSegment) /\ Contains(url, ApiVersionEq)))

\* C10 amended: the URL is accepted exactly when it contains "/openai/deployments/"
\* and "api-version=" (anywhere in it), and is refused with the ValueError
\* otherwise
C10_AcceptsIffMarkers ==
    pc = "parsed" =>
        /\ parsed.ok <=> (Find(url, OpenaiDeployments) > 0 /\ Find(url, ApiVersionEq) > 0)
        /\ ~parsed.ok => parsed.error \in {"format", "version"}

\* C10 witness: a text that is no URL at all, "api-version=" followed by
\* "/openai/deployments/", was accepted
C10_Witness ==
    /\ pc = "parsed"
    /\ form = NoForm
    /\ url = ApiVersionEq \o OpenaiDeployments
    /\ parsed.ok

-----------------------------------------------------------------------------
(* Properties of the translation to SQL *)

\* the three forms of reply C11 names: fence, "sql", newline, query; fence,
\* newline, query; the bare query -- the first two with or without the closing
\* fence
C11_Form(f) ==
    \/ f.open = Fence /\ f.tag = <<"s", "q", "l">> /\ f.sep = <<"\n">>
    \/ f.open = Fence /\ f.tag = <<>> /\ f.sep = <<"\n">>
    \/ f.open = <<>> /\ f.tag = <<>> /\ f.sep = <<>> /\ f.close = <<>>

\* C11: for a reply of the form fence + "sql" + newline + query + fence, of the
\* form fence + newline + query + fence, or that is the bare query, the
\* sanitizer returns the query with its surrounding whitespace removed, and it
\* returns the same when the closing fence is missing
C11_InnerQuery ==
    (pc = "translated" /\ shape # NoShape /\ C11_Form(shape)) =>
        /\ translated.ok
        /\ translated.sql = Strip(shape.query)

\* C11 witness: a reply cut off before its closing fence was cleaned to the query
C11_Witness ==
    /\ pc = "translated"
    /\ llm = "openai"
    /\ shape = [open |-> Fence, tag |-> <<"s", "q", "l">>, sep |-> <<"\n">>, query |-> CountQuery,
                close |-> <<>>]
    /\ translated.sql = CountQuery

\* C12: whatever the text of the reply, the query to_sql returns neither starts
\* nor ends with three backticks
C12_NoFenceAtEnds ==
    translated.ok =>
        /\ ~StartsWith(translated.sql, Fence)
        /\ ~EndsWith(translated.sql, Fence)

\* C13: for a reply wrapped in a fenced block whose opening fence carries a
\* language tag, whatever the tag, the text returned is the interior only: no
\* fence and no part of the tag
C13_TagDiscarded ==
    (/\ pc = "translated"
     /\ shape # NoShape
     /\ shape.open = Fence
     /\ shape.tag # <<>>
     /\ shape.sep = <<"\n">>
     /\ shape.close = Fence
     /\ translated.ok) =>
        translated.sql = Strip(shape.query)

\* C14: when the response has no text content (the content is absent or is the
\* empty text), to_sql fails with an error instead of returning a query, for
\* every provider
C14_NoContentFails ==
    (pc # "translate" /\ reply.kind = "content" /\ reply.text \in {Unset, <<>>}) =>
        ~translated.ok

-----------------------------------------------------------------------------
(* Properties of the geospatial translation *)

ExampleError == <<"l", "i", "t", "e", "l", "l", "m", ".", "A", "u", "t", "h", "e", "n", "t", "i", "c", "a", "t", "i", "o", "n", "E", "r", "r", "o", "r", ":", " ", "A", "u", "t", "h", "e", "n", "t", "i", "c", "a", "t", "i", "o", "n", "E", "r", "r", "o", "r", ":", " ", "O", "p", "e", "n", "A", "I", "E", "x", "c", "e", "p", "t", "i", "o", "n", " ", "-", " ", "I", "n", "v", "a", "l", "i", "d", " ", "k", "e", "y">>

\* C15: when the LLM call raises, the translator raises an error whose message
\* is the text of the exception without its "litellm.<X>Error:", "<X>Error:"
\* and "<X>Exception -" prefixes (and without surrounding whitespace), or the
\* original text when nothing would be left; a non-empty text never becomes
\* an empty message
C15_CleanedMessage ==
    (pc # "translate" /\ reply.kind = "raise") =>
        /\ ~translated.ok
        /\ translated.error =
             (IF Strip(shape.body) = <<>> THEN reply.text ELSE Strip(shape.body))
        /\ reply.text # <<>> => translated.error # <<>>

\* C15 witness: the example text became "Invalid key"
C15_Witness ==
    /\ pc = "translated"
    /\ reply = [kind |-> "raise", text |-> ExampleError]
    /\ translated.error = <<"I", "n", "v", "a", "l", "i", "d", " ", "k", "e", "y">>

OperationsOf(data_type) ==
    IF data_type = "vector" THEN VectorOperations ELSE RasterOperations

\* C16: a query of the geospatial variant succeeds only if the reply, without
\* its fences, is a JSON object with an "operation" member naming an operation
\* of the dataset's own type; any other reply gives an error
C16_OnlyConforming ==
    (pc = "answered" /\ reply.kind = "content" /\ reply.text # Unset
       /\ result.error = Unset) =>
        /\ shape.doc.kind = "object"
        /\ shape.doc.op # Unset
        /\ shape.doc.op \in OperationsOf(dataType)

-----------------------------------------------------------------------------
(* Properties of the runs *)

\* C17: in one-shot mode a query whose translation or execution failed ends
\* the process with an error message and exit code 1
C17_OneShotFailureExitsOne ==
    (mode = "oneshot" /\ pc = "exited" /\ outcome.exc = "Exception") =>
        /\ "error" \in printed
        /\ exitCode = 1

LoadedTable == SelectSeq(table, LAMBDA c : c # ExtraColumn)

\* C19: the schema text is computed once, after the load, and every
\* translation request of the run gets that same text, whatever was asked and
\* executed before
C19_SchemaPassedUnchanged ==
    app = "datatalk" =>
        /\ computed <= 1
        /\ \A i \in 1..Len(passed) :
             /\ computed = 1
             /\ passed[i].schema = schemaInfo
             /\ passed[i].schema = get_schema(LoadedTable)

\* C19 witness: a translation was requested after an executed statement had
\* added a column to the table
C19_Witness ==
    /\ app = "datatalk"
    /\ \E i \in 1..Len(passed) :
         /\ passed[i].columns > Len(LoadedTable)
         /\ passed[i].schema = schemaInfo
         /\ get_schema(table) # schemaInfo

-----------------------------------------------------------------------------
(* Properties of the values that are stored and returned *)

\* C26: a deployment target URL that was taken from the prompt and stored is
\* usable: once the run is over (the provider is built or the process has
\* exited) the stored AZURE_DEPLOYMENT_TARGET_URL is one parse_target_url
\* accepts, in the mapping and in the file
C26_StoredUrlUsable ==
    (pc \in {"ready", "exited"} /\ answered[TargetUrlKey] # Unset) =>
        /\ parse_target_url(config[TargetUrlKey]).ok
        /\ disk # NoFile /\ parse_target_url(disk.content[TargetUrlKey]).ok

\* what detect_llm_provider returned without the menu, "" when it showed the menu
DetectedProvider == IF auto THEN provider ELSE ""

\* C27: detection treats the environment and the configuration alike: the run
\* in which every key is held by the other source, so that the union of the
\* keys is the same, detects the same provider
C27_SourcesAlike ==
    pc # "start" => DetectedProvider = Detect(loaded, env).provider

\* C28: get_env_var never returns an empty value and never stores one, whatever
\* the source of the value; an empty prompt answer ends the run with exit code 1
\* and leaves the configuration without the key
C28_NeverEmpty ==
    /\ \A k \in Keys : got[k] # Unset => got[k] # <<>>
    /\ \A k \in Keys : config[k] # loaded[k] => Truthy(config[k])
    /\ (pc = "exited" /\ asking # "" /\ input # Cancel) =>
          /\ ~Truthy(PromptAsk(input, PromptDefault(asking)))
          /\ exitCode = 1
          /\ config[asking] = Unset
          /\ writes = 0 => disk \in {NoFile, save_config(loaded)}

-----------------------------------------------------------------------------
(* Properties of the command line, of the loop and of the vector queries *)

\* the extensions the loader is documented to support
SupportedFormats == {<<".", "c", "s", "v">>, <<".", "p", "a", "r", "q", "u", "e", "t">>, <<".", "x", "l", "s", "x">>, <<".", "x", "l", "s">>}

Unsupported(path) == LowerText(Suffix(path)) \notin SupportedFormats

C22_PromptRunsOneQuery ==
    args.prompt # Unset =>
        /\ pc \notin {"suggest", "ask", "query"}
        /\ question = NoInput
        /\ asked <= 1
        /\ asked = 1 => pc = "exited"

\* the kinds of decorative output
DecorativeKinds == {"banner", "version", "loading", "loaded", "stats", "progress"}

\* C23: with -p no decorative output is ever emitted while the result or the
\* error of the query is; without -p the decorative output is shown
C23_DecorativeOnlyInteractive ==
    /\ args.prompt # Unset => printed \cap DecorativeKinds = {}
    /\ (args.prompt # Unset /\ asked = 1 /\ outcome.exc # "KeyboardInterrupt") =>
          ("results" \in printed \/ "error" \in printed \/ jsonOut # <<>>)
    /\ (args.prompt = Unset /\ pc \in {"suggest", "ask", "query"}) =>
          {"banner", "loaded", "stats"} \subseteq printed

\* C24 as stated: a run with --reset-config ends with exit code 0 and without
\* a configuration file
C24_Original ==
    (args.reset_config /\ pc = "exited") =>
        /\ exitCode = 0
        /\ disk = NoFile
        /\ load_config(disk) = EmptyConfig

\* C24 amended: --reset-config given without --config-info, with or without a
\* data file and before any provider is looked for, ends the run with exit
\* code 0 whether or not the file exists, reports which of the two cases
\* applied, and leaves no configuration file, so that load_config gives the
\* empty mapping
C24_ResetConfig ==
    [][(pc = "args" /\ args.reset_config /\ ~args.config_info) =>
          /\ pc' = "exited"
          /\ exitCode' = 0
          /\ disk' = NoFile
          /\ load_config(disk') = EmptyConfig
          /\ IF disk # NoFile
             THEN "deleted" \in printed' /\ "nothing to delete" \notin printed'
             ELSE "nothing to delete" \in printed' /\ "deleted" \notin printed'
          /\ requests' = 0
          /\ "loaded" \notin printed']_vars

\* C24 witness: a run with --reset-config alone, no data file, deleted the file
C24_Witness ==
    /\ args.reset_config
    /\ ~args.config_info
    /\ args.file = Unset
    /\ pc = "exited"
    /\ exitCode = 0
    /\ disk = NoFile
    /\ "deleted" \in printed

C29_JsonErrorField ==
    \A i \in 1..Len(jsonOut) :
        /\ (jsonOut[i].error = Unset) <=> (outcome.exc = "none")
        /\ outcome.exc = "Exception" =>
              /\ Truthy(jsonOut[i].error)
              /\ exitCode = 1

\* C30: the features a query_features call returns depend on its sql, bbox and
\* limit only: they are the features the same call returns on the dataset as
\* it was opened, whatever was asked before
C30_QueriesIndependent ==
    call # NoCall =>
        features = query_features(NoBox, call.sql, call.bbox, call.limit).features

====
